---- MODULE Spec2Model ----
(***************************************************************************)
(* PropertyRAG: the ingestion pipeline (services/ingestion.py), the        *)
(* repositories it writes through (db/repository.py), the extractor        *)
(* (services/extractor.py) and the request handlers that own the database  *)
(* session (api/dependencies.py, api/routes/documents.py).                 *)
(*                                                                         *)
(* Every request runs in a session of its own.  Rows written by a session  *)
(* carry that session as owner until the session commits (owner becomes    *)
(* Committed) or rolls back (the rows are removed); other sessions do not  *)
(* see rows owned by a session.                                            *)
(***************************************************************************)
EXTENDS Integers, Sequences, FiniteSets, TLC

\* ---------------------------------------------------------------- bounds
MaxDocs == 1

\* ------------------------------------------------------------- constants
Sessions == {1, 2}
Committed == 0
NoRow == 0
NoPageCount == -1

PENDING == "pending"
PROCESSING == "processing"
COMPLETED == "completed"
FAILED == "failed"

MIETVERTRAG == "mietvertrag"
GUTACHTEN == "gutachten"
GRUNDBUCHAUSZUG == "grundbuchauszug"
NEBENKOSTENABRECHNUNG == "nebenkostenabrechnung"
UNKNOWN == "unknown"

DocumentType ==
  {MIETVERTRAG, GUTACHTEN, GRUNDBUCHAUSZUG, NEBENKOSTENABRECHNUNG, UNKNOWN}

ProcessingStatus ==
  {PENDING, PROCESSING, COMPLETED, FAILED}

EXTRACTION_MODELS ==
  {MIETVERTRAG, GUTACHTEN, GRUNDBUCHAUSZUG, NEBENKOSTENABRECHNUNG}

EXTRACTION_PROMPTS ==
  {MIETVERTRAG, GUTACHTEN, GRUNDBUCHAUSZUG, NEBENKOSTENABRECHNUNG}

DocIds == 1..MaxDocs

\* ------------------------------------------------------ inputs (small sets)
\* The document types a caller passes to an upload.
UploadTypes == {MIETVERTRAG, UNKNOWN}

\* The document types a caller passes to the extractor directly.
RawTypes == {MIETVERTRAG, UNKNOWN}

\* What the generation service answers to the classification prompt: a label,
\* some other text, or an error of the service.
ClassifierReplies == {MIETVERTRAG, UNKNOWN, "something else", "service error"}

\* The fields of an extraction schema, and what the generation service answers
\* to an extraction prompt: a JSON object that validates (the set of fields it
\* fills), text that is not JSON, or an error of the service.
SchemaFields == {"f1"}

ExtractorReplies ==
  [kind : {"json"}, fields : SUBSET SchemaFields]
    \cup {[kind |-> "not json", fields |-> {}],
          [kind |-> "service error", fields |-> {}]}

\* The documents the parser returns: the pages, each page given by the number
\* of chunks its text yields (0: a blank page).
ParsedDocuments == {<<0, 0>>, <<2, 0, 1>>}

VARIABLES
  documents,    \* table documents: DocIds -> row
  chunks,       \* table chunks: DocIds -> set of chunk_index values
  extracted,    \* table extracted_data: a set of rows
  statusLog,    \* history: every value written to a document's status, in order
  pc,           \* Sessions -> position of the request the session serves
  loc,          \* Sessions -> the request's arguments, locals and outcome
  call,         \* a call of a service outside a request: [op, ...arguments]
  result        \* what that call returned or raised; NoResult before it ran

vars ==
  <<documents, chunks, extracted, statusLog, pc, loc, call, result>>

\* The state of the requests and the tables, and the state of a service call.
requestVars ==
  <<documents, chunks, extracted, statusLog, pc, loc>>

serviceVars ==
  <<call, result>>

NoCall == [op |-> "none"]

NoResult == [kind |-> "none"]

\* ------------------------------------------------------------------ rows
NoDoc ==
  [exists |-> FALSE, status |-> PENDING, document_type |-> UNKNOWN,
   page_count |-> NoPageCount, owner |-> Committed]

NoCalls ==
  [parser |-> 0, classifier |-> 0, embedder |-> 0, create_many |-> 0,
   extractor |-> 0, generation |-> 0]

NoReturn == [kind |-> "none", id |-> 0, data |-> {}]

InitLoc ==
  [op |-> "none", document_id |-> 0, document_type |-> UNKNOWN,
   auto_extract |-> FALSE, force |-> FALSE, pages |-> <<>>,
   existing |-> NoRow, found |-> FALSE, data |-> {}, confidence |-> 0,
   raised |-> "none", ret |-> NoReturn,
   calls |-> NoCalls]

\* Empty tables and no request under way.
InitRequests ==
  /\ documents = [d \in DocIds |-> NoDoc]
  /\ chunks = [d \in DocIds |-> {}]
  /\ extracted = {}
  /\ statusLog = [d \in DocIds |-> <<>>]
  /\ pc = [s \in Sessions |-> "idle"]
  /\ loc = [s \in Sessions |-> InitLoc]

Init ==
  /\ InitRequests
  /\ call = NoCall
  /\ result = NoResult

\* ------------------------------------------------------------ persistence

\* Fresh identifiers (uuid4): an id no row of the table has.
NewDocId(docs) ==
  CHOOSE d \in DOMAIN docs :
    ~docs[d].exists /\ \A e \in DOMAIN docs : e < d => docs[e].exists

NewRowId(rows) ==
  CHOOSE i \in 1..(Cardinality(rows) + 1) :
    /\ \A r \in rows : r.id # i
    /\ \A j \in 1..(i - 1) : \E r \in rows : r.id = j

\* A row is visible to a session when it is committed or the session's own.
Visible(s, owner) ==
  owner = Committed \/ owner = s

\* update_status without the WHERE clause: every document gets the status.
UpdateStatusEveryRow(docs, d, status, page_count) ==
  [e \in DOMAIN docs |->
     IF docs[e].exists THEN [docs[e] EXCEPT !.status = status] ELSE docs[e]]

\* DocumentRepository.update_status
UpdateStatus(docs, d, status, page_count) ==
  IF docs[d].exists
  THEN [docs EXCEPT ![d].status = status,
                    ![d].page_count =
                       IF page_count # NoPageCount THEN page_count ELSE @]
  ELSE docs

LogStatus(log, docs, d, status) ==
  IF docs[d].exists THEN [log EXCEPT ![d] = Append(@, status)] ELSE log

\* DocumentRepository.update_type
UpdateType(docs, d, document_type) ==
  IF docs[d].exists
  THEN [docs EXCEPT ![d].document_type = document_type]
  ELSE docs

\* -------------------------------------------------------------- chunking
\* Chunker.chunk_document: the pages are chunked one after the other and the
\* chunk index runs on across pages; the result has one index per chunk.
RECURSIVE ChunkCount(_)
ChunkCount(pages) ==
  IF pages = <<>> THEN 0 ELSE Head(pages) + ChunkCount(Tail(pages))

ChunkIndexes(pages) ==
  0..(ChunkCount(pages) - 1)

\* ParsedDocument.full_text is blank exactly when every page is blank.
FullTextBlank(pages) ==
  \A i \in 1..Len(pages) : pages[i] = 0

\* ------------------------------------------------------------ classifier
\* DocumentClassifier.classify: blank text gives unknown without a call; the
\* reply is mapped through type_mapping, anything else gives unknown; an
\* error of the service raises ClassificationError.
Classify(pages, reply) ==
  IF FullTextBlank(pages)
  THEN [raised |-> "none", document_type |-> UNKNOWN, generation |-> 0]
  ELSE IF reply = "service error"
  THEN [raised |-> "ClassificationError", document_type |-> UNKNOWN, generation |-> 1]
  ELSE [raised |-> "none",
        document_type |-> IF reply \in DocumentType THEN reply ELSE UNKNOWN,
        generation |-> 1]

\* ------------------------------------------------------------- extractor
\* DataExtractor._calculate_confidence, in percent.
CalculateConfidence(fields) ==
  IF Cardinality(SchemaFields) > 0
  THEN (Cardinality(fields) * 100) \div Cardinality(SchemaFields)
  ELSE 0

ExtractionFailed(generation) ==
  [raised |-> "ExtractionError", data |-> {}, confidence |-> 0,
   generation |-> generation]

\* DataExtractor.extract
Extract(document_type, reply) ==
  IF document_type = UNKNOWN THEN ExtractionFailed(0)
  ELSE IF document_type \notin EXTRACTION_MODELS THEN ExtractionFailed(0)
  ELSE IF document_type \notin EXTRACTION_PROMPTS THEN ExtractionFailed(0)
  ELSE IF reply.kind # "json" THEN ExtractionFailed(1)
  ELSE [raised |-> "none", data |-> reply.fields,
        confidence |-> CalculateConfidence(reply.fields), generation |-> 1]

\* ---------------------------------------------------------- session ends
\* get_db after the handler returned: session.commit().
Commit(s, rows) ==
  {[r EXCEPT !.owner = IF @ = s THEN Committed ELSE @,
             !.data = IF r.newBy = s THEN r.newData ELSE @,
             !.confidence = IF r.newBy = s THEN r.newConfidence ELSE @,
             !.newBy = IF @ = s THEN Committed ELSE @,
             !.newData = IF r.newBy = s THEN {} ELSE @,
             !.newConfidence = IF r.newBy = s THEN 0 ELSE @] : r \in rows}

CommitDocs(s, docs) ==
  [d \in DOMAIN docs |->
     IF docs[d].exists /\ docs[d].owner = s
     THEN [docs[d] EXCEPT !.owner = Committed]
     ELSE docs[d]]

\* get_db after the handler raised: session.rollback().
Rollback(s, rows) ==
  {[r EXCEPT !.newBy = IF @ = s THEN Committed ELSE @,
             !.newData = IF r.newBy = s THEN {} ELSE @,
             !.newConfidence = IF r.newBy = s THEN 0 ELSE @] :
     r \in {x \in rows : x.owner # s}}

RollbackDocs(s, docs) ==
  [d \in DOMAIN docs |->
     IF docs[d].exists /\ docs[d].owner = s THEN NoDoc ELSE docs[d]]

RollbackChunks(s, docs, chs) ==
  [d \in DOMAIN docs |->
     IF docs[d].exists /\ docs[d].owner = s THEN {} ELSE chs[d]]

\* ------------------------------------------------------------- requests
\* A session serves one request at a time; a new request is served by the
\* first session that serves none (sessions are interchangeable).
Serving(s) ==
  pc[s] # "idle"

Free(s) ==
  /\ ~Serving(s)
  /\ \A t \in Sessions : t < s => Serving(t)

\* ------------------------------------------------------------- ingestion
\* upload_document, lines 52-65: a file that is no PDF or is empty is refused
\* before the pipeline runs.
UploadRejected(s) ==
  /\ UNCHANGED serviceVars
  /\ Free(s)
  /\ pc' = [pc EXCEPT ![s] = "idle"]
  /\ loc' = [loc EXCEPT ![s] = InitLoc]
  /\ UNCHANGED <<documents, chunks, extracted, statusLog>>

\* ingest_bytes up to the try block: doc_repo.create.  (ingest_file is the
\* same text with parse in the place of parse_bytes.)
IngestCreate(s, document_type, auto_extract) ==
  /\ UNCHANGED serviceVars
  /\ Free(s)
  /\ \E d \in DOMAIN documents : ~documents[d].exists
  /\ documents' = [documents EXCEPT ![NewDocId(documents)] =
       [exists |-> TRUE, status |-> PENDING, document_type |-> document_type,
        page_count |-> NoPageCount, owner |-> s]]
  /\ statusLog' = [statusLog EXCEPT ![NewDocId(documents)] = <<PENDING>>]
  /\ pc' = [pc EXCEPT ![s] = "processing"]
  /\ loc' = [loc EXCEPT ![s] =
       [InitLoc EXCEPT !.op = "upload", !.document_id = NewDocId(documents),
                       !.document_type = document_type,
                       !.auto_extract = auto_extract]]
  /\ UNCHANGED <<chunks, extracted>>

UploadCreate(s) ==
  \E t \in UploadTypes, a \in BOOLEAN : IngestCreate(s, t, a)

\* update_status(document_id, PROCESSING)
IngestProcessing(s) ==
  /\ UNCHANGED serviceVars
  /\ pc[s] = "processing"
  /\ documents' = UpdateStatus(documents, loc[s].document_id, PROCESSING, NoPageCount)
  /\ statusLog' = LogStatus(statusLog, documents, loc[s].document_id, PROCESSING)
  /\ pc' = [pc EXCEPT ![s] = "parse"]
  /\ UNCHANGED <<chunks, extracted, loc>>

\* pdf_parser.parse / parse_bytes: the pages, or PDFParserError.
IngestParse(s) ==
  /\ UNCHANGED serviceVars
  /\ pc[s] = "parse"
  /\ \/ \E pages \in ParsedDocuments :
          /\ loc' = [loc EXCEPT ![s].pages = pages, ![s].calls.parser = @ + 1]
          /\ pc' = [pc EXCEPT ![s] = "classify"]
     \/ /\ loc' = [loc EXCEPT ![s].raised = "PDFParserError",
                              ![s].calls.parser = @ + 1]
        /\ pc' = [pc EXCEPT ![s] = "except"]
  /\ UNCHANGED <<documents, chunks, extracted, statusLog>>

\* Classification when the type is unknown, then update_type.
IngestClassify(s) ==
  /\ UNCHANGED serviceVars
  /\ pc[s] = "classify"
  /\ IF loc[s].document_type = UNKNOWN
     THEN \E reply \in ClassifierReplies :
            LET c == Classify(loc[s].pages, reply) IN
            IF c.raised # "none"
            THEN /\ loc' = [loc EXCEPT ![s].raised = c.raised,
                                       ![s].calls.classifier = @ + 1,
                                       ![s].calls.generation = @ + c.generation]
                 /\ pc' = [pc EXCEPT ![s] = "except"]
                 /\ UNCHANGED documents
            ELSE /\ loc' = [loc EXCEPT ![s].document_type = c.document_type,
                                       ![s].calls.classifier = @ + 1,
                                       ![s].calls.generation = @ + c.generation]
                 /\ documents' = UpdateType(documents, loc[s].document_id, c.document_type)
                 /\ pc' = [pc EXCEPT ![s] = "chunk"]
     ELSE /\ pc' = [pc EXCEPT ![s] = "chunk"]
          /\ UNCHANGED <<documents, loc>>
  /\ UNCHANGED <<chunks, extracted, statusLog>>

\* ChunkNext without the return of the empty-document branch.
ChunkNextFallsThrough(n) ==
  "embed"

\* What follows chunking: with no chunks the run completes at once and returns.
ChunkNext(n) ==
  IF n = 0 THEN "returned" ELSE "embed"

\* EmptyPageCount with the page_count argument left out.
EmptyPageCountMissing(pages) ==
  NoPageCount

\* The page count the empty-document branch records.
EmptyPageCount(pages) ==
  Len(pages)

\* chunk_document, and the branch for a document without chunks.
IngestChunk(s) ==
  /\ UNCHANGED serviceVars
  /\ pc[s] = "chunk"
  /\ LET n == ChunkCount(loc[s].pages)
         d == loc[s].document_id IN
     /\ pc' = [pc EXCEPT ![s] = ChunkNext(n)]
     /\ IF n = 0
        THEN /\ documents' =
                  UpdateStatus(documents, d, COMPLETED, EmptyPageCount(loc[s].pages))
             /\ statusLog' = LogStatus(statusLog, documents, d, COMPLETED)
             /\ loc' = [loc EXCEPT ![s].ret = [NoReturn EXCEPT !.kind = "id", !.id = d]]
        ELSE UNCHANGED <<documents, statusLog, loc>>
  /\ UNCHANGED <<chunks, extracted>>

\* embedder.embed_chunks: a vector for every chunk, or EmbeddingError.
IngestEmbed(s) ==
  /\ UNCHANGED serviceVars
  /\ pc[s] = "embed"
  /\ \E ok \in BOOLEAN :
       IF ok
       THEN /\ loc' = [loc EXCEPT ![s].calls.embedder = @ + 1]
            /\ pc' = [pc EXCEPT ![s] = "store"]
       ELSE /\ loc' = [loc EXCEPT ![s].calls.embedder = @ + 1,
                                  ![s].raised = "EmbeddingError"]
            /\ pc' = [pc EXCEPT ![s] = "except"]
  /\ UNCHANGED <<documents, chunks, extracted, statusLog>>

\* ShouldAutoExtract without the test of the type.
ShouldAutoExtractAnyType(auto_extract, document_type) ==
  auto_extract

\* The condition under which ingestion runs the extraction step.
ShouldAutoExtract(auto_extract, document_type) ==
  auto_extract /\ document_type # UNKNOWN

\* chunk_repo.create_many: all chunks in one flush, or a database error.
IngestStore(s) ==
  /\ UNCHANGED serviceVars
  /\ pc[s] = "store"
  /\ \E ok \in BOOLEAN :
       IF ok
       THEN /\ chunks' = [chunks EXCEPT ![loc[s].document_id] =
                            @ \cup ChunkIndexes(loc[s].pages)]
            /\ loc' = [loc EXCEPT ![s].calls.create_many = @ + 1]
            /\ pc' = [pc EXCEPT ![s] =
                 IF ShouldAutoExtract(loc[s].auto_extract, loc[s].document_type)
                 THEN "extract" ELSE "complete"]
       ELSE /\ loc' = [loc EXCEPT ![s].calls.create_many = @ + 1,
                                  ![s].raised = "DatabaseError"]
            /\ pc' = [pc EXCEPT ![s] = "except"]
            /\ UNCHANGED chunks
  /\ UNCHANGED <<documents, extracted, statusLog>>

\* ------------------------------------------------- extracted_data writes
\* The unique constraint on extracted_data.document_id: an insert waits while
\* another session holds an uncommitted row for the document, and is refused
\* (IntegrityError) when a row for the document is committed or the session's own.
InsertBlocked(s, rows, d) ==
  \E r \in rows : r.document_id = d /\ ~Visible(s, r.owner)

\* UniqueViolation without the unique constraint.
UniqueViolationNone(s, rows, d) ==
  FALSE

UniqueViolation(s, rows, d) ==
  \E r \in rows : r.document_id = d /\ Visible(s, r.owner)

\* ExtractedDataRepository.create
ExtractedCreate(s, rows, id, d, document_type, data, confidence) ==
  rows \cup {[id |-> id, document_id |-> d, document_type |-> document_type,
              data |-> data, confidence |-> confidence, owner |-> s,
              newBy |-> Committed, newData |-> {}, newConfidence |-> 0]}

\* ExtractedDataRepository.get_by_document, as the session sees the table:
\* the id of the document's row, or NoRow.
GetByDocument(s, rows, d) ==
  LET seen == {r \in rows : r.document_id = d /\ Visible(s, r.owner)}
  IN  IF seen = {} THEN NoRow ELSE (CHOOSE r \in seen : TRUE).id

\* The data of a row as the session sees it (its own uncommitted update, else
\* the stored value).
RowData(s, r) ==
  IF r.newBy = s THEN r.newData ELSE r.data

RowConfidence(s, r) ==
  IF r.newBy = s THEN r.newConfidence ELSE r.confidence

\* ExtractedDataRepository.update: an update waits while another session holds
\* an uncommitted update of the row.
UpdateBlocked(s, rows, d) ==
  \E r \in rows :
     r.document_id = d /\ Visible(s, r.owner) /\ r.newBy \notin {Committed, s}

ExtractedUpdate(s, rows, d, data, confidence) ==
  {IF r.document_id = d /\ Visible(s, r.owner)
   THEN IF r.owner = s
        THEN [r EXCEPT !.data = data, !.confidence = confidence]
        ELSE [r EXCEPT !.newBy = s, !.newData = data, !.newConfidence = confidence]
   ELSE r : r \in rows}

\* _extract_and_store catches ExtractionError and nothing else: what leaves it.
CatchExtraction(raised) ==
  IF raised = "ExtractionError" THEN "none" ELSE raised

\* _extract_and_store: extractor.extract, then extracted_repo.create.
IngestExtract(s) ==
  /\ UNCHANGED serviceVars
  /\ pc[s] = "extract"
  /\ ~InsertBlocked(s, extracted, loc[s].document_id)
  /\ \E reply \in ExtractorReplies, dbOk \in BOOLEAN :
       LET d == loc[s].document_id
           r == Extract(loc[s].document_type, reply)
           stored == r.raised = "none" /\ dbOk /\ ~UniqueViolation(s, extracted, d)
           raised == IF r.raised # "none" THEN r.raised
                     ELSE IF UniqueViolation(s, extracted, d) THEN "IntegrityError"
                     ELSE IF ~dbOk THEN "DatabaseError"
                     ELSE "none"
           out == CatchExtraction(raised)
       IN  /\ extracted' =
                IF stored
                THEN ExtractedCreate(s, extracted, NewRowId(extracted), d, loc[s].document_type,
                                     r.data, r.confidence)
                ELSE extracted
           /\ loc' = [loc EXCEPT ![s].calls.extractor = @ + 1,
                                 ![s].calls.generation = @ + r.generation,
                                 ![s].raised = out]
           /\ pc' = [pc EXCEPT ![s] = IF out = "none" THEN "complete" ELSE "except"]
  /\ UNCHANGED <<documents, chunks, statusLog>>

\* update_status(document_id, COMPLETED, page_count) and return document_id.
IngestComplete(s) ==
  /\ UNCHANGED serviceVars
  /\ pc[s] = "complete"
  /\ LET d == loc[s].document_id IN
     /\ documents' = UpdateStatus(documents, d, COMPLETED, Len(loc[s].pages))
     /\ statusLog' = LogStatus(statusLog, documents, d, COMPLETED)
     /\ loc' = [loc EXCEPT ![s].ret = [NoReturn EXCEPT !.kind = "id", !.id = d]]
  /\ pc' = [pc EXCEPT ![s] = "returned"]
  /\ UNCHANGED <<chunks, extracted>>

\* ExceptHandler with the first except clause only.
ExceptHandlerParseOnly(e) ==
  IF e = "PDFParserError"
  THEN [set_failed |-> TRUE, raises |-> "IngestionError"]
  ELSE [set_failed |-> FALSE, raises |-> e]

\* The two except clauses of ingest_bytes / ingest_file: whether the status is
\* set to failed, and what is raised to the caller.
ExceptHandler(e) ==
  [set_failed |-> TRUE, raises |-> "IngestionError"]

IngestExcept(s) ==
  /\ UNCHANGED serviceVars
  /\ pc[s] = "except"
  /\ LET d == loc[s].document_id
         h == ExceptHandler(loc[s].raised) IN
     /\ documents' =
          IF h.set_failed THEN UpdateStatus(documents, d, FAILED, NoPageCount)
          ELSE documents
     /\ statusLog' =
          IF h.set_failed THEN LogStatus(statusLog, documents, d, FAILED)
          ELSE statusLog
     /\ loc' = [loc EXCEPT ![s].raised = h.raises]
  /\ pc' = [pc EXCEPT ![s] = "raised"]
  /\ UNCHANGED <<chunks, extracted>>

\* get_db: commit when the handler returned, rollback when it raised.
GetDbEnd(raised) ==
  IF raised = "none" THEN "commit" ELSE "rollback"

EndSession(s, end) ==
  IF end = "commit"
  THEN /\ documents' = CommitDocs(s, documents)
       /\ extracted' = Commit(s, extracted)
       /\ UNCHANGED <<chunks, statusLog>>
  ELSE /\ documents' = RollbackDocs(s, documents)
       /\ chunks' = RollbackChunks(s, documents, chunks)
       /\ extracted' = Rollback(s, extracted)
       /\ statusLog' = [d \in DOMAIN documents |->
            IF documents[d].exists /\ documents[d].owner = s THEN <<>>
            ELSE statusLog[d]]

\* upload_document after ingest_bytes: the response, or IngestionError turned
\* into HTTPException 422; then get_db ends the session.
UploadRespond(s) ==
  /\ UNCHANGED serviceVars
  /\ loc[s].op = "upload"
  /\ pc[s] \in {"returned", "raised"}
  /\ LET out == IF loc[s].raised = "IngestionError" THEN "HTTPException"
                ELSE loc[s].raised
         end == GetDbEnd(out) IN
     /\ EndSession(s, end)
     /\ loc' = [loc EXCEPT ![s] = InitLoc]
  /\ pc' = [pc EXCEPT ![s] = "idle"]

\* ------------------------------------------------------ extract_document
\* extract_document_data: a request to extract document d.
ExtractStart(s) ==
  /\ UNCHANGED serviceVars
  /\ Free(s)
  /\ \E d \in DocIds, force \in BOOLEAN :
       loc' = [loc EXCEPT ![s] =
                 [InitLoc EXCEPT !.op = "extract", !.document_id = d, !.force = force]]
  /\ pc' = [pc EXCEPT ![s] = "x_check"]
  /\ UNCHANGED <<documents, chunks, extracted, statusLog>>

\* ReturnsExisting without the test of force.
ReturnsExistingIgnoresForce(existing, force) ==
  existing # NoRow

\* if existing and not force
ReturnsExisting(existing, force) ==
  existing # NoRow /\ ~force

\* get_by_document, and the early return of the stored data.
ExtractCheckExisting(s) ==
  /\ UNCHANGED serviceVars
  /\ pc[s] = "x_check"
  /\ LET existing == GetByDocument(s, extracted, loc[s].document_id) IN
     IF ReturnsExisting(existing, loc[s].force)
     THEN LET r == CHOOSE x \in extracted : x.id = existing IN
          /\ loc' = [loc EXCEPT ![s].existing = existing,
                                ![s].ret = [NoReturn EXCEPT !.kind = "data",
                                                            !.data = RowData(s, r)]]
          /\ pc' = [pc EXCEPT ![s] = "x_returned"]
     ELSE /\ loc' = [loc EXCEPT ![s].existing = existing]
          /\ pc' = [pc EXCEPT ![s] = "x_load"]
  /\ UNCHANGED <<documents, chunks, extracted, statusLog>>

\* doc_repo.get_by_id with the chunks; no document or type unknown returns None.
ExtractLoadDocument(s) ==
  /\ UNCHANGED serviceVars
  /\ pc[s] = "x_load"
  /\ LET doc == documents[loc[s].document_id] IN
     IF ~(doc.exists /\ Visible(s, doc.owner))
     THEN /\ loc' = [loc EXCEPT ![s].ret = [NoReturn EXCEPT !.kind = "null"]]
          /\ pc' = [pc EXCEPT ![s] = "x_returned"]
     ELSE IF doc.document_type = UNKNOWN
     THEN /\ loc' = [loc EXCEPT ![s].found = TRUE,
                                ![s].ret = [NoReturn EXCEPT !.kind = "null"]]
          /\ pc' = [pc EXCEPT ![s] = "x_returned"]
     ELSE /\ loc' = [loc EXCEPT ![s].found = TRUE,
                                ![s].document_type = doc.document_type]
          /\ pc' = [pc EXCEPT ![s] = "x_extract"]
  /\ UNCHANGED <<documents, chunks, extracted, statusLog>>

\* ExtractionFailedOutcome without the except clause.
ExtractionFailedPropagates ==
  [raised |-> "ExtractionError", ret |-> NoReturn]

\* except ExtractionError in extract_document: what the call does then.
ExtractionFailedOutcome ==
  [raised |-> "none", ret |-> [NoReturn EXCEPT !.kind = "null"]]

\* extractor.extract on the text of the chunks.
ExtractCall(s) ==
  /\ UNCHANGED serviceVars
  /\ pc[s] = "x_extract"
  /\ \E reply \in ExtractorReplies :
       LET r == Extract(loc[s].document_type, reply) IN
       IF r.raised # "none"
       THEN /\ loc' = [loc EXCEPT ![s].calls.extractor = @ + 1,
                                  ![s].calls.generation = @ + r.generation,
                                  ![s].raised = ExtractionFailedOutcome.raised,
                                  ![s].ret = ExtractionFailedOutcome.ret]
            /\ pc' = [pc EXCEPT ![s] =
                 IF ExtractionFailedOutcome.raised = "none" THEN "x_returned"
                 ELSE "x_raised"]
       ELSE /\ loc' = [loc EXCEPT ![s].calls.extractor = @ + 1,
                                  ![s].calls.generation = @ + r.generation,
                                  ![s].data = r.data,
                                  ![s].confidence = r.confidence]
            /\ pc' = [pc EXCEPT ![s] = "x_store"]
  /\ UNCHANGED <<documents, chunks, extracted, statusLog>>

\* DocumentsAfterExtraction with the status set back to processing.
DocumentsAfterExtractionTouched(docs, d) ==
  UpdateStatus(docs, d, PROCESSING, NoPageCount)

\* The documents table after extract_document has stored its result: the
\* method calls no DocumentRepository write.
DocumentsAfterExtraction(docs, d) ==
  docs

\* extracted_repo.update when a record existed, else extracted_repo.create;
\* then return data_dict.
ExtractStore(s) ==
  /\ UNCHANGED serviceVars
  /\ pc[s] = "x_store"
  /\ LET d == loc[s].document_id IN
     /\ IF loc[s].existing # NoRow
        THEN ~UpdateBlocked(s, extracted, d)
        ELSE ~InsertBlocked(s, extracted, d)
     /\ \E dbOk \in BOOLEAN :
          LET raised ==
                IF loc[s].existing = NoRow /\ UniqueViolation(s, extracted, d)
                THEN "IntegrityError"
                ELSE IF ~dbOk THEN "DatabaseError" ELSE "none"
          IN  /\ extracted' =
                   IF raised # "none" THEN extracted
                   ELSE IF loc[s].existing # NoRow
                   THEN ExtractedUpdate(s, extracted, d, loc[s].data, loc[s].confidence)
                   ELSE ExtractedCreate(s, extracted, NewRowId(extracted), d, loc[s].document_type,
                                        loc[s].data, loc[s].confidence)
              /\ loc' = [loc EXCEPT ![s].raised = raised,
                                    ![s].ret = IF raised = "none"
                                               THEN [NoReturn EXCEPT !.kind = "data",
                                                                     !.data = loc[s].data]
                                               ELSE @]
              /\ pc' = [pc EXCEPT ![s] = IF raised = "none" THEN "x_returned"
                                         ELSE "x_raised"]
     /\ documents' = DocumentsAfterExtraction(documents, d)
  /\ UNCHANGED <<chunks, statusLog>>

\* extract_document_data after extract_document: None becomes HTTPException
\* 422; then get_db ends the session.
ExtractRespond(s) ==
  /\ UNCHANGED serviceVars
  /\ loc[s].op = "extract"
  /\ pc[s] \in {"x_returned", "x_raised"}
  /\ LET out == IF loc[s].raised # "none" THEN loc[s].raised
                ELSE IF loc[s].ret.kind = "null" THEN "HTTPException"
                ELSE "none"
         end == GetDbEnd(out) IN
     /\ EndSession(s, end)
     /\ loc' = [loc EXCEPT ![s] = InitLoc]
  /\ pc' = [pc EXCEPT ![s] = "idle"]

\* DataExtractor.extract_raw: the extractor called directly with a type.
ExtractRawStart(s) ==
  /\ UNCHANGED serviceVars
  /\ Free(s)
  /\ \E t \in RawTypes :
       loc' = [loc EXCEPT ![s] =
                 [InitLoc EXCEPT !.op = "extract_raw", !.document_type = t]]
  /\ pc' = [pc EXCEPT ![s] = "raw"]
  /\ UNCHANGED <<documents, chunks, extracted, statusLog>>

ExtractRawCall(s) ==
  /\ UNCHANGED serviceVars
  /\ pc[s] = "raw"
  /\ \E reply \in ExtractorReplies :
       LET r == Extract(loc[s].document_type, reply) IN
       loc' = [loc EXCEPT ![s].raised = r.raised,
                          ![s].calls.extractor = @ + 1,
                          ![s].calls.generation = @ + r.generation,
                          ![s].ret = IF r.raised = "none"
                                     THEN [NoReturn EXCEPT !.kind = "data",
                                                           !.data = r.data]
                                     ELSE NoReturn]
  /\ pc' = [pc EXCEPT ![s] = "raw_done"]
  /\ UNCHANGED <<documents, chunks, extracted, statusLog>>

ExtractRawEnd(s) ==
  /\ UNCHANGED serviceVars
  /\ pc[s] = "raw_done"
  /\ pc' = [pc EXCEPT ![s] = "idle"]
  /\ loc' = [loc EXCEPT ![s] = InitLoc]
  /\ UNCHANGED <<documents, chunks, extracted, statusLog>>

Next ==
  \E s \in Sessions :
    \/ UploadRejected(s)
    \/ UploadCreate(s)
    \/ IngestProcessing(s)
    \/ IngestParse(s)
    \/ IngestClassify(s)
    \/ IngestChunk(s)
    \/ IngestEmbed(s)
    \/ IngestStore(s)
    \/ IngestExtract(s)
    \/ IngestComplete(s)
    \/ IngestExcept(s)
    \/ UploadRespond(s)
    \/ ExtractStart(s)
    \/ ExtractCheckExisting(s)
    \/ ExtractLoadDocument(s)
    \/ ExtractCall(s)
    \/ ExtractStore(s)
    \/ ExtractRespond(s)
    \/ ExtractRawStart(s)
    \/ ExtractRawCall(s)
    \/ ExtractRawEnd(s)

Spec == Init /\ [][Next]_vars

\* ================================================================ chunker
\* services/chunker.py.  A text is the sequence of its tokens (encode and
\* decode of the tokenizer go between the two without loss).  A token is a
\* word together with the blank before it (WORD), such a word ending a
\* sentence (STOP), or a paragraph break "\n\n" (PARA), the only token that
\* is white space.  Every token of a page carries its position in the page, so
\* that two tokens of a page are never equal by accident; a separator the
\* chunker inserts carries position 0.
chunk_size == 3

chunk_overlap == 2

MaxTextLen == 7

WORD == "w"
STOP == "."
PARA == "nn"

TokenKinds == {WORD, STOP, PARA}

ParagraphSeparator == <<PARA, 0>>

IsSpace(token) ==
  token[1] = PARA

\* The tokenizer on a page text given by the kinds of its tokens.
encode(kinds) ==
  [i \in 1..Len(kinds) |-> <<kinds[i], i>>]

\* Chunker.count_tokens
count_tokens(text) ==
  Len(text)

\* str.strip
RECURSIVE lstrip(_)
lstrip(text) ==
  IF text # <<>> /\ IsSpace(Head(text)) THEN lstrip(Tail(text)) ELSE text

RECURSIVE rstrip(_)
rstrip(text) ==
  IF text # <<>> /\ IsSpace(text[Len(text)])
  THEN rstrip(SubSeq(text, 1, Len(text) - 1))
  ELSE text

strip(text) ==
  rstrip(lstrip(text))

\* str.split on the token sep: the pieces between its occurrences.
RECURSIVE split(_, _)
split(text, piece) ==
  IF text = <<>> THEN <<piece>>
  ELSE IF IsSpace(Head(text)) THEN <<piece>> \o split(Tail(text), <<>>)
  ELSE split(Tail(text), Append(piece, Head(text)))

\* [p.strip() for p in pieces if p.strip()]
RECURSIVE stripped_nonempty(_)
stripped_nonempty(pieces) ==
  IF pieces = <<>> THEN <<>>
  ELSE IF strip(Head(pieces)) # <<>>
  THEN <<strip(Head(pieces))>> \o stripped_nonempty(Tail(pieces))
  ELSE stripped_nonempty(Tail(pieces))

\* Chunker._split_into_paragraphs
split_into_paragraphs(text) ==
  stripped_nonempty(split(text, <<>>))

\* Chunker._split_into_sentences: the text is cut behind every token that ends
\* a sentence (the blank that follows belongs to the next token).
RECURSIVE sentences_of(_, _)
sentences_of(text, piece) ==
  IF text = <<>> THEN <<piece>>
  ELSE IF Head(text)[1] = STOP
  THEN <<Append(piece, Head(text))>> \o sentences_of(Tail(text), <<>>)
  ELSE sentences_of(Tail(text), Append(piece, Head(text)))

split_into_sentences(text) ==
  stripped_nonempty(sentences_of(text, <<>>))

\* Chunker._get_overlap_text
get_overlap_text(text) ==
  IF Len(text) <= chunk_overlap THEN text
  ELSE SubSeq(text, Len(text) - chunk_overlap + 1, Len(text))

\* TextChunk; flushed_by records the place in the code that made the chunk:
\* "full" (the next piece would exceed chunk_size), "large" (the next piece is
\* larger than chunk_size by itself), "end" (last chunk) or "window".
TextChunk(content, page_number, chunk_index, token_count, flushed_by) ==
  [content |-> content, page_number |-> page_number,
   chunk_index |-> chunk_index, token_count |-> token_count,
   flushed_by |-> flushed_by]

Min(a, b) ==
  IF a <= b THEN a ELSE b

\* end = min(i + self.chunk_size, len(tokens))
window_end(i, n, size) ==
  Min(i + size, n)

\* next_start that leaves no overlap.
next_start_at_end(end, n, overlap) ==
  end

\* i = end - self.chunk_overlap if end < len(tokens) else end
next_start(end, n, overlap) ==
  IF end < n THEN end - overlap ELSE end

\* Chunker._force_split_by_tokens, from token i (0-based) on.
RECURSIVE force_split_from(_, _, _, _)
force_split_from(tokens, page_number, chunk_index, i) ==
  IF i >= Len(tokens) THEN <<>>
  ELSE LET end == window_end(i, Len(tokens), chunk_size)
           chunk_tokens == SubSeq(tokens, i + 1, end)
       IN  <<TextChunk(chunk_tokens, page_number, chunk_index,
                       Len(chunk_tokens), "window")>>
           \o force_split_from(tokens, page_number, chunk_index + 1,
                               next_start(end, Len(tokens), chunk_overlap))

force_split_by_tokens(text, page_number, start_index) ==
  force_split_from(text, page_number, start_index, 0)

\* The locals of the two loops: the chunks so far, the buffer, its token count
\* and the index of the next chunk.
LoopStart(start_index) ==
  [chunks |-> <<>>, current_text |-> <<>>, current_tokens |-> 0,
   chunk_index |-> start_index]

\* The buffer is appended as a chunk with the running token count.
FlushBuffer(st, page_number, flushed_by) ==
  [st EXCEPT !.chunks = Append(@, TextChunk(strip(st.current_text), page_number,
                                            st.chunk_index, st.current_tokens,
                                            flushed_by)),
             !.chunk_index = @ + 1]

\* The last chunk of a loop, counted on the stripped text.
FlushLast(st, page_number) ==
  IF strip(st.current_text) # <<>>
  THEN Append(st.chunks,
              TextChunk(strip(st.current_text), page_number, st.chunk_index,
                        count_tokens(strip(st.current_text)), "end"))
  ELSE st.chunks

\* One round of a loop for a piece no larger than chunk_size; sep is what the
\* loop puts between two pieces.
Accumulate(st, piece, sep, page_number) ==
  IF st.current_tokens + count_tokens(piece) > chunk_size
  THEN IF strip(st.current_text) # <<>>
       THEN LET text == get_overlap_text(st.current_text) \o sep \o piece
            IN  [FlushBuffer(st, page_number, "full") EXCEPT
                   !.current_text = text, !.current_tokens = count_tokens(text)]
       ELSE [st EXCEPT !.current_text = piece,
                       !.current_tokens = count_tokens(piece)]
  ELSE LET text == IF st.current_text # <<>>
                   THEN st.current_text \o sep \o piece ELSE piece
       IN  [st EXCEPT !.current_text = text, !.current_tokens = count_tokens(text)]

\* The start of a round for a piece larger than chunk_size: the buffer, if it
\* holds text, is flushed and emptied.
FlushBeforeLarge(st, page_number) ==
  IF strip(st.current_text) # <<>>
  THEN [FlushBuffer(st, page_number, "large") EXCEPT
          !.current_text = <<>>, !.current_tokens = 0]
  ELSE st

\* Chunker._split_large_text: the loop over the sentences.
RECURSIVE split_large_loop(_, _, _)
split_large_loop(sentences, st, page_number) ==
  IF sentences = <<>> THEN st
  ELSE LET sentence == Head(sentences)
           next ==
             IF count_tokens(sentence) > chunk_size
             THEN LET f == FlushBeforeLarge(st, page_number)
                      token_chunks ==
                        force_split_by_tokens(sentence, page_number, f.chunk_index)
                  IN  [f EXCEPT !.chunks = @ \o token_chunks,
                                !.chunk_index = @ + Len(token_chunks)]
             ELSE Accumulate(st, sentence, <<>>, page_number)
       IN  split_large_loop(Tail(sentences), next, page_number)

split_large_text(text, page_number, start_index) ==
  FlushLast(split_large_loop(split_into_sentences(text), LoopStart(start_index),
                             page_number),
            page_number)

\* Chunker._chunk_page: the loop over the paragraphs.
RECURSIVE chunk_page_loop(_, _, _)
chunk_page_loop(paragraphs, st, page_number) ==
  IF paragraphs = <<>> THEN st
  ELSE LET paragraph == Head(paragraphs)
           next ==
             IF count_tokens(paragraph) > chunk_size
             THEN LET f == FlushBeforeLarge(st, page_number)
                      para_chunks ==
                        split_large_text(paragraph, page_number, f.chunk_index)
                  IN  [f EXCEPT !.chunks = @ \o para_chunks,
                                !.chunk_index = @ + Len(para_chunks)]
             ELSE Accumulate(st, paragraph, <<ParagraphSeparator>>, page_number)
       IN  chunk_page_loop(Tail(paragraphs), next, page_number)

\* chunk_page that gives every chunk the number of the first page.
chunk_page_numbered_one(page, start_index) ==
  IF strip(page.text) = <<>> THEN <<>>
  ELSE FlushLast(chunk_page_loop(split_into_paragraphs(page.text),
                                 LoopStart(start_index), 1),
                 1)

chunk_page(page, start_index) ==
  IF strip(page.text) = <<>> THEN <<>>
  ELSE FlushLast(chunk_page_loop(split_into_paragraphs(page.text),
                                 LoopStart(start_index), page.page_number),
                 page.page_number)

\* NextChunkIndex that starts every page at 0 again.
NextChunkIndexPerPage(chunk_index, page_chunks) ==
  0

\* chunk_index += len(page_chunks)
NextChunkIndex(chunk_index, page_chunks) ==
  chunk_index + Len(page_chunks)

\* Chunker.chunk_document
RECURSIVE chunk_pages(_, _)
chunk_pages(pages, chunk_index) ==
  IF pages = <<>> THEN <<>>
  ELSE LET page_chunks == chunk_page(Head(pages), chunk_index)
       IN  page_chunks \o chunk_pages(Tail(pages), NextChunkIndex(chunk_index, page_chunks))

chunk_document(document) ==
  chunk_pages(document, 0)

\* The documents given to the chunker: one page or two, of MaxTextLen tokens
\* together at most.
ParsedPage(page_number, kinds) ==
  [page_number |-> page_number, text |-> encode(kinds)]

InitChunker ==
  /\ InitRequests
  /\ \E k \in 0..MaxTextLen :
       \E t \in [1..k -> TokenKinds] :
         \/ call = [op |-> "chunk_document", document |-> <<ParsedPage(1, t)>>]
         \/ \E j \in 0..(MaxTextLen - k) :
              \E u \in [1..j -> TokenKinds] :
                call = [op |-> "chunk_document",
                        document |-> <<ParsedPage(1, t), ParsedPage(2, u)>>]
  /\ result = NoResult

ChunkDocument ==
  /\ call.op = "chunk_document"
  /\ result = NoResult
  /\ result' = [kind |-> "chunks", chunks |-> chunk_document(call.document)]
  /\ UNCHANGED <<requestVars, call>>

SpecChunker == InitChunker /\ [][ChunkDocument]_vars

\* =============================================================== embedder
\* services/embedder.py.  The embedding service answers a batch with one item
\* per input, each with the index of its input in the batch, in any order, or
\* the call raises.
MAX_BATCH_SIZE == 2

MaxTexts == 4

TextValues == {"a", "b", "c"}

\* The vector the service computes for a text.
Embedding(text) ==
  <<"embedding", text>>

Range(seq) ==
  {seq[i] : i \in 1..Len(seq)}

\* The batches of embed_texts: texts[i : i + MAX_BATCH_SIZE] for the k-th
\* value i of range(0, len(texts), MAX_BATCH_SIZE), k = 1, 2, ...
NumBatches(texts) ==
  (Len(texts) + MAX_BATCH_SIZE - 1) \div MAX_BATCH_SIZE

Batch(texts, k) ==
  SubSeq(texts, (k - 1) * MAX_BATCH_SIZE + 1,
         Min(k * MAX_BATCH_SIZE, Len(texts)))

\* What client.embeddings.create may answer to a batch.
BatchResponses(batch) ==
  {[kind |-> "error", data |-> <<>>]}
    \cup {[kind |-> "data",
           data |-> [j \in 1..Len(batch) |->
                       [index |-> p[j] - 1, embedding |-> Embedding(batch[p[j]])]]] :
            p \in {q \in [1..Len(batch) -> 1..Len(batch)] :
                     \A a, b \in 1..Len(batch) : a # b => q[a] # q[b]}}

\* sorted_by_index that leaves the response in the order received.
sorted_as_received(data) ==
  data

\* sorted(response.data, key=lambda x: x.index)
sorted_by_index(data) ==
  [i \in 1..Len(data) |->
     CHOOSE item \in Range(data) :
       Cardinality({x \in Range(data) : x.index < item.index}) = i - 1]

\* on_batch_error that returns the vectors of the batches before.
on_batch_error_partial(all_embeddings, k) ==
  [kind |-> "embeddings", embeddings |-> all_embeddings, calls |-> k]

\* on_batch_error that sends the failed batch once more before it raises.
on_batch_error_retry(all_embeddings, k) ==
  [kind |-> "EmbeddingError", calls |-> k + 1]

\* except Exception in embed_texts: EmbeddingError is raised, nothing returned.
on_batch_error(all_embeddings, k) ==
  [kind |-> "EmbeddingError", calls |-> k]

\* The loop of embed_texts from batch k on.
RECURSIVE embed_batches(_, _, _, _)
embed_batches(texts, responses, k, all_embeddings) ==
  IF k > NumBatches(texts)
  THEN [kind |-> "embeddings", embeddings |-> all_embeddings, calls |-> k - 1]
  ELSE IF responses[k].kind = "error"
  THEN on_batch_error(all_embeddings, k)
  ELSE LET sorted_data == sorted_by_index(responses[k].data)
           batch_embeddings ==
             [j \in 1..Len(sorted_data) |-> sorted_data[j].embedding]
       IN  embed_batches(texts, responses, k + 1, all_embeddings \o batch_embeddings)

\* Embedder.embed_texts
embed_texts(texts, responses) ==
  IF texts = <<>>
  THEN [kind |-> "embeddings", embeddings |-> <<>>, calls |-> 0]
  ELSE embed_batches(texts, responses, 1, <<>>)

\* Embedder.embed_chunks after embed_texts returned:
\* list(zip(chunks, embeddings, strict=True)).
zip_strict(chunk_list, embeddings) ==
  IF Len(chunk_list) # Len(embeddings)
  THEN [kind |-> "ValueError"]
  ELSE [kind |-> "chunks_with_embeddings",
        pairs |-> [i \in 1..Len(chunk_list) |-> <<chunk_list[i], embeddings[i]>>]]

\* ingest_bytes, "Store chunks": the chunk_data given to create_many.
chunk_data(pairs) ==
  [i \in 1..Len(pairs) |->
     [content |-> pairs[i][1].content, chunk_index |-> pairs[i][1].chunk_index,
      embedding |-> pairs[i][2]]]

\* The chunks of a document with the given contents.
ChunksOf(texts) ==
  [i \in 1..Len(texts) |-> [content |-> texts[i], chunk_index |-> i - 1]]

InitEmbedder ==
  /\ InitRequests
  /\ \E n \in 0..MaxTexts :
       \E texts \in [1..n -> TextValues] :
         \E responses \in [1..NumBatches(texts) ->
                             UNION {BatchResponses(Batch(texts, k)) :
                                      k \in 1..NumBatches(texts)}] :
           /\ \A k \in 1..NumBatches(texts) :
                responses[k] \in BatchResponses(Batch(texts, k))
           /\ call = [op |-> "embed_chunks", chunks |-> ChunksOf(texts),
                      responses |-> responses]
  /\ result = NoResult

CallTexts ==
  [i \in 1..Len(call.chunks) |-> call.chunks[i].content]

\* embed_chunks: texts = [chunk.content ...]; embed_texts(texts)
EmbedTexts ==
  /\ call.op = "embed_chunks"
  /\ result = NoResult
  /\ result' = embed_texts(CallTexts, call.responses)
  /\ UNCHANGED <<requestVars, call>>

\* embed_chunks: the return of the pairs
EmbedChunksReturn ==
  /\ call.op = "embed_chunks"
  /\ result.kind = "embeddings"
  /\ result' = zip_strict(call.chunks, result.embeddings)
  /\ UNCHANGED <<requestVars, call>>

\* ingest_bytes with the pairs embed_chunks returned
IngestChunkData ==
  /\ call.op = "embed_chunks"
  /\ result.kind = "chunks_with_embeddings"
  /\ result' = [kind |-> "chunk_data", chunk_data |-> chunk_data(result.pairs)]
  /\ UNCHANGED <<requestVars, call>>

NextEmbedder ==
  \/ EmbedTexts
  \/ EmbedChunksReturn
  \/ IngestChunkData

SpecEmbedder == InitEmbedder /\ [][NextEmbedder]_vars

\* ============================================================== retrieval
\* services/retriever.py, services/rag.py, ChunkRepository.search_similar.
\* Scores are in hundredths.  The store holds two documents of two projects
\* with four chunks; the question decides the similarity of every chunk.
ExcerptLength == 2

CorpusDocuments ==
  {[id |-> "d1", project_id |-> "p1", filename |-> "d1.pdf"],
   [id |-> "d2", project_id |-> "p2", filename |-> "d2.pdf"]}

CorpusChunks ==
  {[id |-> "c1", document_id |-> "d1", page_number |-> 1, chunk_index |-> 0,
    content |-> <<"c1", "c1", "c1">>],
   [id |-> "c2", document_id |-> "d1", page_number |-> 1, chunk_index |-> 1,
    content |-> <<"c2">>],
   [id |-> "c3", document_id |-> "d1", page_number |-> 2, chunk_index |-> 2,
    content |-> <<"c3", "c3">>],
   [id |-> "c4", document_id |-> "d2", page_number |-> 1, chunk_index |-> 0,
    content |-> <<"c4", "c4">>]}

ChunkIds == {c.id : c \in CorpusChunks}

ChunkById(id) ==
  CHOOSE c \in CorpusChunks : c.id = id

\* DocumentRepository.get_by_id
DocumentById(id) ==
  CHOOSE d \in CorpusDocuments : d.id = id

None == "None"

Similarities == {10, 30, 50}

\* RAGConfig
RAGConfig ==
  [top_k |-> 5, include_context |-> TRUE, context_chunks |-> 1, min_score |-> 30]

\* The default of the parameter min_score of Retriever.retrieve.
retrieve_min_score_default == 0

\* top_k: 0 for a call that gives none (top_k or the default).
TopKs == {0, 1, 2}

\* context_chunks of the RAGConfig the service was built with.
ContextChunks == {0, 1, 2}

ProjectFilters == {None, "p1", "p2"}

\* document_ids: a list, or None.
NoDocumentIds == [given |-> FALSE, ids |-> <<>>]

DocumentIdList(ids) ==
  [given |-> TRUE, ids |-> ids]

DocumentIdLists ==
  {NoDocumentIds} \cup {DocumentIdList(ids) : ids \in {<<>>, <<"d1">>, <<"d2">>, <<"d1", "d2">>}}

\* if document_ids: (None and the empty list are both false)
Truthy(list) ==
  list.given /\ list.ids # <<>>

\* The rows the WHERE clause of search_similar admits.
Admitted(project_id, document_ids) ==
  IF Truthy(document_ids)
  THEN {c \in CorpusChunks : c.document_id \in Range(document_ids.ids)}
  ELSE IF project_id # None
  THEN {c \in CorpusChunks : DocumentById(c.document_id).project_id = project_id}
  ELSE CorpusChunks

\* ChunkRepository.search_similar: what ORDER BY similarity DESC LIMIT top_k may
\* return: top_k admitted rows (all, if fewer) of the highest similarity, in
\* descending order, rows of equal similarity in any order.
SearchResults(similarity, top_k, project_id, document_ids) ==
  LET rows == Admitted(project_id, document_ids)
      n == Min(top_k, Cardinality(rows))
  IN  {r \in [1..n -> rows] :
         /\ \A i, j \in 1..n : i < j =>
              /\ r[i] # r[j]
              /\ similarity[r[i].id] >= similarity[r[j].id]
         /\ \A c \in rows : (\A i \in 1..n : r[i] # c) =>
              \A i \in 1..n : similarity[r[i].id] >= similarity[c.id]}

RetrievedChunk(chunk, filename, score) ==
  [chunk_id |-> chunk.id, document_id |-> chunk.document_id, filename |-> filename,
   content |-> chunk.content, page_number |-> chunk.page_number, score |-> score]

\* BelowMinScore that drops a result of exactly min_score too.
BelowOrAtMinScore(score, min_score) ==
  score <= min_score

\* if score < min_score: continue
BelowMinScore(score, min_score) ==
  score < min_score

\* Retriever.retrieve after search_similar returned results.
RECURSIVE retrieve(_, _, _)
retrieve(results, similarity, min_score) ==
  IF results = <<>> THEN <<>>
  ELSE LET chunk == Head(results)
           score == similarity[chunk.id]
       IN  IF BelowMinScore(score, min_score)
           THEN retrieve(Tail(results), similarity, min_score)
           ELSE <<RetrievedChunk(chunk, DocumentById(chunk.document_id).filename, score)>>
                  \o retrieve(Tail(results), similarity, min_score)

\* sorted / list.sort: a stable sort; before[a, b] when a sorts before b.  An
\* element lands behind those that sort before it and behind the earlier ones
\* it does not sort before.
sort_stable(seq, before) ==
  LET place(i) ==
        1 + Cardinality({j \in 1..Len(seq) :
                           \/ before[seq[j], seq[i]]
                           \/ j < i /\ ~before[seq[i], seq[j]]})
  IN  [k \in 1..Len(seq) |-> seq[CHOOSE i \in 1..Len(seq) : place(i) = k]]

\* ChunkRepository.get_by_document: the chunks of a document by chunk_index.
OrderedByChunkIndex ==
  [a \in CorpusChunks, b \in CorpusChunks |-> a.chunk_index < b.chunk_index]

IndexOf(seq, x) ==
  CHOOSE i \in 1..Len(seq) : seq[i] = x

SetToSeq(set) ==
  CHOOSE f \in [1..Cardinality(set) -> set] : Range(f) = set

get_by_document(document_id) ==
  sort_stable(SetToSeq({c \in CorpusChunks : c.document_id = document_id}),
              OrderedByChunkIndex)

\* dict_set that leaves the value of a key that is present.
dict_set_default(all_chunks, value) ==
  IF \E i \in 1..Len(all_chunks) : all_chunks[i].chunk_id = value.chunk_id
  THEN all_chunks
  ELSE Append(all_chunks, value)

\* all_chunks[key] = value on a dict kept as the sequence of its values in
\* insertion order: a key that is present keeps its place.
dict_set(all_chunks, value) ==
  IF \E i \in 1..Len(all_chunks) : all_chunks[i].chunk_id = value.chunk_id
  THEN [i \in 1..Len(all_chunks) |->
          IF all_chunks[i].chunk_id = value.chunk_id THEN value ELSE all_chunks[i]]
  ELSE Append(all_chunks, value)

\* context_score = chunk.score * 0.9
context_score(score) ==
  (score * 9) \div 10

\* The inner loop of retrieve_with_context: the neighbours of a primary chunk.
RECURSIVE add_context(_, _, _, _, _)
add_context(all_chunks, chunk, doc_chunks, idx, end_idx) ==
  IF idx >= end_idx THEN all_chunks
  ELSE LET ctx_chunk == doc_chunks[idx + 1]
           next ==
             IF \E i \in 1..Len(all_chunks) : all_chunks[i].chunk_id = ctx_chunk.id
             THEN all_chunks
             ELSE dict_set(all_chunks,
                           RetrievedChunk(ctx_chunk, chunk.filename,
                                          context_score(chunk.score)))
       IN  add_context(next, chunk, doc_chunks, idx + 1, end_idx)

Max(a, b) ==
  IF a >= b THEN a ELSE b

\* The outer loop of retrieve_with_context.
RECURSIVE gather_context(_, _, _)
gather_context(primary_chunks, all_chunks, context_chunks) ==
  IF primary_chunks = <<>> THEN all_chunks
  ELSE LET chunk == Head(primary_chunks)
           with_chunk == dict_set(all_chunks, chunk)
           doc_chunks == get_by_document(chunk.document_id)
           current_idx == IndexOf(doc_chunks, ChunkById(chunk.chunk_id)) - 1
           start_idx == Max(0, current_idx - context_chunks)
           end_idx == Min(Len(doc_chunks), current_idx + context_chunks + 1)
       IN  gather_context(Tail(primary_chunks),
                          add_context(with_chunk, chunk, doc_chunks, start_idx, end_idx),
                          context_chunks)

\* key=lambda c: (c.document_id, c.page_number or 0, c.score)
ReadingOrder(all_chunks) ==
  [a \in Range(all_chunks), b \in Range(all_chunks) |->
     \/ a.document_id # b.document_id
          /\ a.document_id = "d1"
     \/ a.document_id = b.document_id /\ a.page_number < b.page_number
     \/ a.document_id = b.document_id /\ a.page_number = b.page_number
          /\ a.score < b.score]

\* Retriever.retrieve_with_context after retrieve returned primary_chunks.
retrieve_with_context(primary_chunks, context_chunks) ==
  IF primary_chunks = <<>> \/ context_chunks = 0 THEN primary_chunks
  ELSE LET all_chunks == gather_context(primary_chunks, <<>>, context_chunks)
       IN  sort_stable(all_chunks, ReadingOrder(all_chunks))

\* chunk.content[:500]
Excerpt(content) ==
  SubSeq(content, 1, Min(Len(content), ExcerptLength))

\* SourceKey that tells every chunk apart.
SourceKeyPerChunk(chunk) ==
  <<chunk.chunk_id, chunk.page_number>>

\* key = (chunk.document_id, chunk.page_number)
SourceKey(chunk) ==
  <<chunk.document_id, chunk.page_number>>

Source(chunk) ==
  [document_id |-> chunk.document_id, filename |-> chunk.filename,
   page_number |-> chunk.page_number, chunk_content |-> Excerpt(chunk.content),
   score |-> chunk.score]

\* The loop of _build_sources.
RECURSIVE dedup_sources(_, _)
dedup_sources(retrieved, seen) ==
  IF retrieved = <<>> THEN <<>>
  ELSE IF SourceKey(Head(retrieved)) \in seen
  THEN dedup_sources(Tail(retrieved), seen)
  ELSE <<Source(Head(retrieved))>>
         \o dedup_sources(Tail(retrieved), seen \cup {SourceKey(Head(retrieved))})

ScoreDescending(sources) ==
  [a \in Range(sources), b \in Range(sources) |-> a.score > b.score]

\* RAGService._build_sources
build_sources(retrieved) ==
  LET sources == dedup_sources(retrieved, {})
  IN  sort_stable(sources, ScoreDescending(sources))

NoInformationAnswer == "Ich konnte keine relevanten Informationen in den Dokumenten finden."

\* The min_score query passes to the retriever: retrieve_with_context takes
\* none and calls retrieve with the default.
QueryMinScore(include_context) ==
  IF include_context THEN retrieve_min_score_default ELSE RAGConfig.min_score

\* A question (the similarity it gives every chunk) with its filters, asked of
\* a RAGService in either retrieval mode.
InitRetrieval ==
  /\ InitRequests
  /\ \E similarity \in [ChunkIds -> Similarities], top_k \in TopKs,
        project_id \in ProjectFilters, document_ids \in DocumentIdLists,
        include_context \in BOOLEAN, context_chunks \in ContextChunks :
       /\ ~include_context => context_chunks = RAGConfig.context_chunks
       /\ call = [op |-> "query", similarity |-> similarity, top_k |-> top_k,
                  project_id |-> project_id, document_ids |-> document_ids,
                  include_context |-> include_context,
                  context_chunks |-> context_chunks]
  /\ result = NoResult

\* Retriever.retrieve, called by query or by retrieve_with_context.
Retrieve ==
  /\ call.op = "query"
  /\ result = NoResult
  /\ \E results \in SearchResults(call.similarity,
                                  IF call.top_k = 0 THEN RAGConfig.top_k ELSE call.top_k,
                                  call.project_id, call.document_ids) :
       result' = [kind |-> "retrieved", results |-> results,
                  min_score |-> QueryMinScore(call.include_context),
                  chunks |-> retrieve(results, call.similarity,
                                      QueryMinScore(call.include_context))]
  /\ UNCHANGED <<requestVars, call>>

\* retrieve_with_context after retrieve.
RetrieveContext ==
  /\ call.op = "query"
  /\ call.include_context
  /\ result.kind = "retrieved"
  /\ result' = [kind |-> "with_context", primary_chunks |-> result.chunks,
                chunks |-> retrieve_with_context(result.chunks, call.context_chunks)]
  /\ UNCHANGED <<requestVars, call>>

\* RAGService.query after the retrieval.
QueryRespond ==
  /\ call.op = "query"
  /\ result.kind = (IF call.include_context THEN "with_context" ELSE "retrieved")
  /\ result' =
       IF result.chunks = <<>>
       THEN [kind |-> "response", answer |-> NoInformationAnswer, sources |-> <<>>,
             generation |-> 0, chunks |-> result.chunks]
       ELSE [kind |-> "response", answer |-> "generated",
             sources |-> build_sources(result.chunks),
             generation |-> 1, chunks |-> result.chunks]
  /\ UNCHANGED <<requestVars, call>>

NextRetrieval ==
  \/ Retrieve
  \/ RetrieveContext
  \/ QueryRespond

SpecRetrieval == InitRetrieval /\ [][NextRetrieval]_vars

\* ============================================================ classifier
\* services/classifier.py.  A text is a sequence of atoms: a word or a piece
\* of white space.
MaxResponseLen == 3

Whitespace == {" "}

ResponseAtoms ==
  Whitespace \cup {"mietvertrag", "Mietvertrag", "gutachten", "grundbuchauszug",
                   "nebenkostenabrechnung", "unknown", "vertrag"}

\* str.lower on an atom.
lower_atom(atom) ==
  IF atom = "Mietvertrag" THEN "mietvertrag" ELSE atom

\* str.lower
lower(text) ==
  [i \in 1..Len(text) |-> lower_atom(text[i])]

\* str.strip
RECURSIVE str_lstrip(_)
str_lstrip(text) ==
  IF text # <<>> /\ Head(text) \in Whitespace THEN str_lstrip(Tail(text)) ELSE text

RECURSIVE str_rstrip(_)
str_rstrip(text) ==
  IF text # <<>> /\ text[Len(text)] \in Whitespace
  THEN str_rstrip(SubSeq(text, 1, Len(text) - 1))
  ELSE text

str_strip(text) ==
  str_rstrip(str_lstrip(text))

\* type_mapping.get(result, DocumentType.UNKNOWN)
type_mapping(label) ==
  IF Len(label) = 1 /\ label[1] \in DocumentType THEN label[1] ELSE UNKNOWN

\* normalized that keeps the letter case of the response.
normalized_case_kept(content) ==
  str_strip(content)

\* response.choices[0].message.content.strip().lower()
normalized(content) ==
  lower(str_strip(content))

\* What the generation service does with the classification prompt: it
\* raises, or it answers with a message whose content is a text or None.
ServiceError == [kind |-> "error"]

NoContent == [kind |-> "none"]

TextContent(content) ==
  [kind |-> "text", content |-> content]

\* DocumentClassifier.classify
classify(text, response) ==
  IF str_strip(text) = <<>>
  THEN [kind |-> "document_type", document_type |-> UNKNOWN, generation |-> 0]
  ELSE IF response.kind # "text"
  THEN [kind |-> "ClassificationError", generation |-> 1]
  ELSE [kind |-> "document_type",
        document_type |-> type_mapping(normalized(response.content)),
        generation |-> 1]

\* The document texts given to classify.
ClassifiedTexts ==
  {<<>>, <<" ">>, <<" ", " ">>, <<"vertrag">>, <<" ", "vertrag">>}

InitClassifier ==
  /\ InitRequests
  /\ \E text \in ClassifiedTexts :
       \/ \E response \in {ServiceError, NoContent} :
            call = [op |-> "classify", text |-> text, response |-> response]
       \/ \E n \in 0..MaxResponseLen : \E content \in [1..n -> ResponseAtoms] :
            call = [op |-> "classify", text |-> text, response |-> TextContent(content)]
  /\ result = NoResult

ClassifyText ==
  /\ call.op = "classify"
  /\ result = NoResult
  /\ result' = classify(call.text, call.response)
  /\ UNCHANGED <<requestVars, call>>

SpecClassifier == InitClassifier /\ [][ClassifyText]_vars

\* ============================================================ confidence
\* DataExtractor._calculate_confidence on a record of an extraction schema.
\* A record is the sequence of the values of its fields; the quotient is kept
\* as numerator and denominator.
MaxFields == 3

EmptyList == "[]"

FieldValues == {None, "value", EmptyList, "[value]"}

\* is_filled that counts an empty list too.
is_filled_not_none(value) ==
  value # None

\* value is not None and not (isinstance(value, list) and len(value) == 0)
is_filled(value) ==
  value # None /\ value # EmptyList

\* The loop of _calculate_confidence over the first k fields.
RECURSIVE filled_fields(_, _)
filled_fields(data, k) ==
  IF k = 0 THEN 0
  ELSE filled_fields(data, k - 1) + (IF is_filled(data[k]) THEN 1 ELSE 0)

\* DataExtractor._calculate_confidence
calculate_confidence(data) ==
  LET total_fields == Len(data)
  IN  IF total_fields > 0
      THEN [num |-> filled_fields(data, total_fields), den |-> total_fields]
      ELSE [num |-> 0, den |-> 1]

\* Two records of one schema.
InitConfidence ==
  /\ InitRequests
  /\ \E n \in 1..MaxFields : \E data \in [1..n -> FieldValues], other \in [1..n -> FieldValues] :
       call = [op |-> "calculate_confidence", data |-> data, other |-> other]
  /\ result = NoResult

CalculateConfidences ==
  /\ call.op = "calculate_confidence"
  /\ result = NoResult
  /\ result' = [kind |-> "confidence",
                confidence |-> calculate_confidence(call.data),
                other |-> calculate_confidence(call.other)]
  /\ UNCHANGED <<requestVars, call>>

SpecConfidence == InitConfidence /\ [][CalculateConfidences]_vars

\* ========================================================== all requests
\* The requests of the routes together with the calls of the embedder and of
\* the RAG service: one behaviour follows one of them.
InitCalls ==
  \/ Init
  \/ InitEmbedder
  \/ InitRetrieval

NextCalls ==
  \/ call = NoCall /\ Next
  \/ NextEmbedder
  \/ NextRetrieval

SpecCalls == InitCalls /\ [][NextCalls]_vars

\* ====================================================== concurrent uploads
\* Uploads only, served by the sessions side by side, each with its own
\* IngestionPipeline (get_ingestion_pipeline) and its own document.
MaxRuns == 2

RunDocIds == 1..MaxRuns

InitIngest ==
  /\ documents = [d \in RunDocIds |-> NoDoc]
  /\ chunks = [d \in RunDocIds |-> {}]
  /\ extracted = {}
  /\ statusLog = [d \in RunDocIds |-> <<>>]
  /\ pc = [s \in Sessions |-> "idle"]
  /\ loc = [s \in Sessions |-> InitLoc]
  /\ call = NoCall
  /\ result = NoResult

NextIngest ==
  \E s \in Sessions :
    \/ UploadRejected(s)
    \/ UploadCreate(s)
    \/ IngestProcessing(s)
    \/ IngestParse(s)
    \/ IngestClassify(s)
    \/ IngestChunk(s)
    \/ IngestEmbed(s)
    \/ IngestStore(s)
    \/ IngestExtract(s)
    \/ IngestComplete(s)
    \/ IngestExcept(s)
    \/ UploadRespond(s)

SpecIngest == InitIngest /\ [][NextIngest]_vars

\* ============================================================ forced split
\* Chunker.__init__ and the loop of Chunker._force_split_by_tokens, one
\* iteration a step, for a Chunker built with any arguments.  A sentence is
\* the sequence of the positions of its tokens.
MaxIterations == MaxTextLen + 1

\* The arguments of the constructor; 0 stands for None as well, which `or`
\* treats alike.
ChunkSizeArgs == 0..chunk_size

ChunkOverlapArgs == 0..(chunk_size + 1)

\* self.chunk_size = chunk_size or settings.chunk_size
init_chunk_size(arg) ==
  IF arg # 0 THEN arg ELSE chunk_size

\* self.chunk_overlap = chunk_overlap or settings.chunk_overlap
init_chunk_overlap(arg) ==
  IF arg # 0 THEN arg ELSE chunk_overlap

\* A bound of a slice brought into 0..n as Python does: a negative one counts
\* from the end.
slice_index(k, n) ==
  IF k < 0 THEN (IF k + n < 0 THEN 0 ELSE k + n)
  ELSE IF k > n THEN n ELSE k

\* tokens[i:end]
slice(tokens, i, end) ==
  SubSeq(tokens, slice_index(i, Len(tokens)) + 1, slice_index(end, Len(tokens)))

InitForceSplit ==
  /\ InitRequests
  /\ \E size_arg \in ChunkSizeArgs, overlap_arg \in ChunkOverlapArgs :
       \E n \in (init_chunk_size(size_arg) + 1)..MaxTextLen :
         call = [op |-> "force_split_by_tokens",
                 chunk_size |-> init_chunk_size(size_arg),
                 chunk_overlap |-> init_chunk_overlap(overlap_arg),
                 tokens |-> [k \in 1..n |-> k]]
  /\ result = NoResult

\* chunks = [], i = 0
ForceSplitStart ==
  /\ call.op = "force_split_by_tokens"
  /\ result = NoResult
  /\ result' = [kind |-> "loop", i |-> 0, windows |-> <<>>]
  /\ UNCHANGED <<requestVars, call>>

\* One iteration of while i < len(tokens).
ForceSplitIteration ==
  /\ call.op = "force_split_by_tokens"
  /\ result.kind = "loop"
  /\ result.i < Len(call.tokens)
  /\ Len(result.windows) < MaxIterations
  /\ LET end == window_end(result.i, Len(call.tokens), call.chunk_size)
     IN  result' = [kind |-> "loop",
                    i |-> next_start(end, Len(call.tokens), call.chunk_overlap),
                    windows |-> Append(result.windows,
                                       [start |-> result.i,
                                        tokens |-> slice(call.tokens, result.i, end)])]
  /\ UNCHANGED <<requestVars, call>>

\* return chunks
ForceSplitReturn ==
  /\ call.op = "force_split_by_tokens"
  /\ result.kind = "loop"
  /\ result.i >= Len(call.tokens)
  /\ result' = [kind |-> "windows", windows |-> result.windows]
  /\ UNCHANGED <<requestVars, call>>

NextForceSplit ==
  \/ ForceSplitStart
  \/ ForceSplitIteration
  \/ ForceSplitReturn

SpecForceSplit == InitForceSplit /\ [][NextForceSplit]_vars

\* ================================================================ projects
\* The project routes over the store: projects, the documents that refer to
\* them, and the chunks and extracted data of the documents.  A request runs
\* in one session that get_db commits when the route returns, so a request
\* is one step.  The store is held in `result`, the last request in `call`.
MaxProjects == 2

MaxProjectDocs == 2

ProjectIds == 1..MaxProjects

ProjectDocIds == 1..MaxProjectDocs

\* The chunks a stored document may have.
ProjectChunkCounts == {1, 2}

\* project_id None: the document belongs to no project.
NoProject == 0

HTTP_201_CREATED == 201

HTTP_204_NO_CONTENT == 204

HTTP_404_NOT_FOUND == 404

EmptyStore ==
  [kind |-> "store", projects |-> {}, documents |-> <<>>,
   chunks |-> {}, extracted_data |-> {}]

\* The rows the relationship ProjectModel.documents loads: the documents
\* whose project_id is the project's id.
project_documents(store, project_id) ==
  {d \in DOMAIN store.documents : store.documents[d].project_id = project_id}

\* Deleting document rows with relationships cascade="all, delete-orphan" on
\* chunks and extracted_data: the rows of the documents go with them.
delete_documents(store, doc_ids) ==
  [store EXCEPT
     !.documents = [d \in DOMAIN store.documents \ doc_ids |-> store.documents[d]],
     !.chunks = {c \in store.chunks : c.document_id \notin doc_ids},
     !.extracted_data = store.extracted_data \ doc_ids]

\* session.delete(project) with ProjectModel.documents declared
\* cascade="all, delete-orphan": the unit of work loads the documents of the
\* project and deletes them, and with them their chunks and extracted data,
\* before it deletes the project; no row is left for SET NULL to act on.
session_delete_project(store, project_id) ==
  [delete_documents(store, project_documents(store, project_id))
     EXCEPT !.projects = store.projects \ {project_id}]

InitProjects ==
  /\ InitRequests
  /\ call = [op |-> "none", id |-> 0, status_code |-> 0]
  /\ result = EmptyStore

\* create_project
CreateProject ==
  /\ call.op \in {"none", "create_project", "upload_document",
                  "delete_document", "delete_project"}
  /\ result.kind = "store"
  /\ \E p \in ProjectIds \ result.projects :
       /\ result' = [result EXCEPT !.projects = result.projects \cup {p}]
       /\ call' = [op |-> "create_project", id |-> p,
                   status_code |-> HTTP_201_CREATED]
  /\ UNCHANGED requestVars

\* upload_document with or without a project, ingested to the end: the
\* document row, its chunks and, where the type has a schema, its extracted
\* data.
UploadToProject ==
  /\ call.op \in {"none", "create_project", "upload_document",
                  "delete_document", "delete_project"}
  /\ result.kind = "store"
  /\ \E d \in ProjectDocIds \ DOMAIN result.documents,
        p \in result.projects \cup {NoProject},
        n \in ProjectChunkCounts, has_data \in BOOLEAN :
       /\ result' = [result EXCEPT
            !.documents = [x \in DOMAIN result.documents \cup {d} |->
                             IF x = d THEN [project_id |-> p]
                             ELSE result.documents[x]],
            !.chunks = result.chunks
                       \cup {[document_id |-> d, chunk_index |-> k] : k \in 0..(n - 1)},
            !.extracted_data = IF has_data THEN result.extracted_data \cup {d}
                               ELSE result.extracted_data]
       /\ call' = [op |-> "upload_document", id |-> d,
                   status_code |-> HTTP_201_CREATED]
  /\ UNCHANGED requestVars

\* delete_document
DeleteDocument ==
  /\ call.op \in {"none", "create_project", "upload_document",
                  "delete_document", "delete_project"}
  /\ result.kind = "store"
  /\ \E d \in ProjectDocIds :
       IF d \in DOMAIN result.documents
       THEN /\ result' = delete_documents(result, {d})
            /\ call' = [op |-> "delete_document", id |-> d,
                        status_code |-> HTTP_204_NO_CONTENT]
       ELSE /\ result' = result
            /\ call' = [op |-> "delete_document", id |-> d,
                        status_code |-> HTTP_404_NOT_FOUND]
  /\ UNCHANGED requestVars

\* delete_project: ProjectRepository.delete, 404 when it returns False.
DeleteProject ==
  /\ call.op \in {"none", "create_project", "upload_document",
                  "delete_document", "delete_project"}
  /\ result.kind = "store"
  /\ \E p \in ProjectIds :
       IF p \in result.projects
       THEN /\ result' = session_delete_project(result, p)
            /\ call' = [op |-> "delete_project", id |-> p,
                        status_code |-> HTTP_204_NO_CONTENT]
       ELSE /\ result' = result
            /\ call' = [op |-> "delete_project", id |-> p,
                        status_code |-> HTTP_404_NOT_FOUND]
  /\ UNCHANGED requestVars

NextProjects ==
  \/ CreateProject
  \/ UploadToProject
  \/ DeleteDocument
  \/ DeleteProject

SpecProjects == InitProjects /\ [][NextProjects]_vars

\* ================================================================ claims
IsPrefix(p, q) ==
  Len(p) <= Len(q) /\ \A i \in 1..Len(p) : p[i] = q[i]

\* The step is one of session s (every action moves the session it serves).
StepOf(s) ==
  pc'[s] # pc[s]

RowsOf(rows, d) ==
  {r \in rows : r.document_id = d}

\* C1: the values written to a document's status, in the order written, are
\* pending, processing and then completed or failed, and nothing after that;
\* the stored status is the last value written.
C1_StatusLifecycle ==
  \A d \in DocIds :
    /\ \/ IsPrefix(statusLog[d], <<PENDING, PROCESSING, COMPLETED>>)
       \/ IsPrefix(statusLog[d], <<PENDING, PROCESSING, FAILED>>)
    /\ documents[d].exists =>
         /\ statusLog[d] # <<>>
         /\ documents[d].status = statusLog[d][Len(statusLog[d])]

C1_Witness ==
  \E d \in DocIds, s \in Sessions :
    /\ statusLog[d] = <<PENDING, PROCESSING, FAILED>>
    /\ documents[d].status = FAILED
    /\ pc[s] = "raised"
    /\ loc[s].document_id = d

C3_FailedUploadPersisted ==
  [][\A s \in Sessions :
       (loc[s].op = "upload" /\ pc[s] = "raised" /\ pc'[s] = "idle") =>
         /\ documents'[loc[s].document_id].exists
         /\ documents'[loc[s].document_id].status = FAILED
         /\ documents'[loc[s].document_id].owner = Committed]_vars

\* C4: once the extraction step of ingestion has run, whatever failed in it,
\* the run neither is in its failure handler nor has raised.
C4_ExtractionNeverFailsIngestion ==
  \A s \in Sessions :
    (loc[s].op = "upload" /\ loc[s].calls.extractor > 0) =>
      pc[s] \notin {"except", "raised"}

\* C5: a run whose document yields no chunk has, once chunking is over,
\* returned the document id without raising, with status completed and the
\* parsed page count recorded, and has called neither the embedder, nor
\* create_many, nor the extractor; the document has no chunks and no record.
C5_EmptyDocumentCompletes ==
  \A s \in Sessions :
    (/\ loc[s].op = "upload"
     /\ loc[s].pages # <<>>
     /\ ChunkCount(loc[s].pages) = 0
     /\ pc[s] \notin {"classify", "chunk"}) =>
      /\ pc[s] = "returned"
      /\ loc[s].raised = "none"
      /\ loc[s].ret = [NoReturn EXCEPT !.kind = "id", !.id = loc[s].document_id]
      /\ loc[s].calls.embedder = 0
      /\ loc[s].calls.create_many = 0
      /\ loc[s].calls.extractor = 0
      /\ documents[loc[s].document_id].status = COMPLETED
      /\ documents[loc[s].document_id].page_count = Len(loc[s].pages)
      /\ chunks[loc[s].document_id] = {}
      /\ RowsOf(extracted, loc[s].document_id) = {}

C5_Witness ==
  \E s \in Sessions :
    /\ pc[s] = "returned"
    /\ loc[s].pages # <<>>
    /\ ChunkCount(loc[s].pages) = 0
    /\ loc[s].auto_extract
    /\ loc[s].document_type = MIETVERTRAG

\* C6: a run of ingestion that has called the extractor has a resolved type
\* other than unknown, and is at the extraction step only with such a type; a
\* direct call of the extractor with type unknown has raised ExtractionError
\* without a call of the generation service.
C6_NoExtractionForUnknown ==
  \A s \in Sessions :
    /\ (loc[s].op = "upload" /\ (loc[s].calls.extractor > 0 \/ pc[s] = "extract")) =>
         loc[s].document_type # UNKNOWN
    /\ (pc[s] = "raw_done" /\ loc[s].document_type = UNKNOWN) =>
         /\ loc[s].raised = "ExtractionError"
         /\ loc[s].calls.generation = 0
         /\ loc[s].ret = NoReturn

C6_Witness ==
  \E s \in Sessions, t \in Sessions :
    /\ loc[s].op = "upload"
    /\ loc[s].auto_extract
    /\ loc[s].document_type = UNKNOWN
    /\ loc[s].calls.classifier = 1
    /\ loc[s].calls.create_many = 1
    /\ pc[s] = "returned"
    /\ pc[t] = "raw_done"
    /\ loc[t].document_type = UNKNOWN

\* C7: every step of an extract_document request, the end of its session
\* included, leaves the documents (status, type, page count), the chunks and
\* the status history as they are, and leaves the records of every other
\* document as they are.
C7_ExtractFrame ==
  [][\A s \in Sessions :
       (StepOf(s) /\ (loc[s].op = "extract" \/ loc'[s].op = "extract")) =>
         /\ documents' = documents
         /\ chunks' = chunks
         /\ statusLog' = statusLog
         /\ \A d \in DocIds :
              d # (IF loc[s].op = "extract" THEN loc[s].document_id
                   ELSE loc'[s].document_id) =>
                RowsOf(extracted', d) = RowsOf(extracted, d)]_vars

C7_Witness ==
  \E s \in Sessions :
    /\ loc[s].op = "extract"
    /\ pc[s] = "x_returned"
    /\ loc[s].calls.extractor = 1
    /\ loc[s].ret.kind = "data"
    /\ loc[s].force
    /\ loc[s].existing # NoRow
    /\ documents[loc[s].document_id].status = COMPLETED
    /\ chunks[loc[s].document_id] # {}

\* C8: the step of extract_document in which the extractor fails returns null
\* and raises nothing, and neither that step nor the end of the request
\* changes any record.
C8_FailedExtractionReturnsNull ==
  [][\A s \in Sessions :
       /\ (pc[s] = "x_extract" /\ StepOf(s) /\ pc'[s] # "x_store") =>
            /\ pc'[s] = "x_returned"
            /\ loc'[s].raised = "none"
            /\ loc'[s].ret = [NoReturn EXCEPT !.kind = "null"]
            /\ extracted' = extracted
       /\ (/\ pc[s] = "x_returned" /\ StepOf(s)
           /\ loc[s].calls.extractor = 1 /\ loc[s].ret.kind = "null") =>
            extracted' = extracted]_vars

C8_Witness ==
  \E s \in Sessions :
    /\ pc[s] = "x_returned"
    /\ loc[s].calls.extractor = 1
    /\ loc[s].ret.kind = "null"
    /\ \E r \in extracted :
         /\ r.id = loc[s].existing
         /\ r.owner = Committed
         /\ r.newBy = Committed
         /\ r.data # {}

\* C9: the table never holds two records of one document, and a re-extraction
\* that stores over an existing record keeps the set of records and gives the
\* document's record the new data and confidence.
C9_AtMostOne ==
  \A d \in DocIds : Cardinality(RowsOf(extracted, d)) <= 1

C9_Replaces ==
  \A s \in Sessions :
    (/\ pc[s] = "x_store" /\ loc[s].existing # NoRow
     /\ pc'[s] = "x_returned") =>
      /\ {r.id : r \in extracted'} = {r.id : r \in extracted}
      /\ \A r \in RowsOf(extracted', loc[s].document_id) :
           /\ RowData(s, r) = loc[s].data
           /\ RowConfidence(s, r) = loc[s].confidence

C9_OneRecordPerDocument ==
  []C9_AtMostOne /\ [][C9_Replaces]_vars

C9_Witness ==
  \E s \in Sessions, t \in Sessions :
    /\ pc[s] = "x_raised"
    /\ loc[s].raised = "IntegrityError"
    /\ pc[t] = "idle"
    /\ Cardinality(RowsOf(extracted, loc[s].document_id)) = 1

\* C10: extract_document goes on to load the document exactly when force is
\* set or it sees no record, and otherwise returns the stored data of the
\* record, calling no extractor and writing nothing; having loaded, it calls
\* the extractor exactly when the document exists with a type other than
\* unknown; and the extractor is called in no other step of the request.
C10_Check ==
  \A s \in Sessions :
    (pc[s] = "x_check" /\ StepOf(s)) =>
      LET seen == {r \in RowsOf(extracted, loc[s].document_id) : Visible(s, r.owner)}
      IN  IF loc[s].force \/ seen = {}
          THEN pc'[s] = "x_load"
          ELSE /\ pc'[s] = "x_returned"
               /\ loc'[s].raised = "none"
               /\ loc'[s].ret.kind = "data"
               /\ \E r \in seen : loc'[s].ret.data = RowData(s, r)
               /\ loc'[s].calls.extractor = 0
               /\ extracted' = extracted
               /\ documents' = documents
               /\ chunks' = chunks

C10_Load ==
  \A s \in Sessions :
    (pc[s] = "x_load" /\ StepOf(s)) =>
      LET doc == documents[loc[s].document_id] IN
      IF doc.exists /\ Visible(s, doc.owner) /\ doc.document_type # UNKNOWN
      THEN pc'[s] = "x_extract"
      ELSE pc'[s] = "x_returned" /\ loc'[s].ret.kind = "null"

C10_Call ==
  \A s \in Sessions :
    (StepOf(s) /\ loc[s].op = "extract") =>
      IF pc[s] = "x_extract"
      THEN loc'[s].calls.extractor = loc[s].calls.extractor + 1
      ELSE pc'[s] = "idle" \/ loc'[s].calls.extractor = loc[s].calls.extractor

C10_ExtractorInvokedIff ==
  [][C10_Check /\ C10_Load /\ C10_Call]_vars

C10_Witness ==
  \E s \in Sessions :
    /\ pc[s] = "x_returned"
    /\ ~loc[s].force
    /\ loc[s].existing # NoRow
    /\ loc[s].calls.extractor = 0
    /\ loc[s].ret.kind = "data"
    /\ loc[s].ret.data # {}

\* ------------------------------------------------------- claims: chunker
\* The chunks chunk_document returned (none before it has returned).
ReturnedChunks ==
  IF result.kind = "chunks" THEN result.chunks ELSE <<>>

LastTokens(text, n) ==
  SubSeq(text, Len(text) - n + 1, Len(text))

\* C11: the chunk_index values of the chunks chunk_document returns are
\* 0, 1, ..., n-1 in list order, across pages and whichever path made a chunk.
C11_ChunkIndexContiguous ==
  \A i \in 1..Len(ReturnedChunks) : ReturnedChunks[i].chunk_index = i - 1

C11_Witness ==
  /\ Len(ReturnedChunks) >= 3
  /\ \E i \in 1..Len(ReturnedChunks) : ReturnedChunks[i].flushed_by = "window"
  /\ \E i \in 1..Len(ReturnedChunks) :
       /\ ReturnedChunks[i].page_number = 2
       /\ ReturnedChunks[i].flushed_by = "end"
  /\ ReturnedChunks[1].page_number = 1

\* C12: no chunk chunk_document returns has more than chunk_size tokens.
C12_ChunkWithinSize ==
  \A i \in 1..Len(ReturnedChunks) :
    count_tokens(ReturnedChunks[i].content) <= chunk_size

\* C13: the token_count of every chunk is the tokenizer's count of its content.
C13_TokenCountExact ==
  \A i \in 1..Len(ReturnedChunks) :
    ReturnedChunks[i].token_count = count_tokens(ReturnedChunks[i].content)

\* C14: a chunk flushed because the next paragraph or sentence would exceed
\* chunk_size is followed by a chunk of the same page, and the last
\* min(chunk_overlap, length) tokens of the first are a prefix of the content
\* of the second.
C14_OverlapIsPrefix ==
  \A i \in 1..Len(ReturnedChunks) :
    ReturnedChunks[i].flushed_by = "full" =>
      /\ i < Len(ReturnedChunks)
      /\ ReturnedChunks[i + 1].page_number = ReturnedChunks[i].page_number
      /\ IsPrefix(LastTokens(ReturnedChunks[i].content,
                             Min(chunk_overlap, Len(ReturnedChunks[i].content))),
                  ReturnedChunks[i + 1].content)

\* ------------------------------------------------------ claims: embedder
AnyBatchFails ==
  \E k \in 1..NumBatches(CallTexts) : call.responses[k].kind = "error"

\* C15: embed_texts returns one vector per input text, the i-th being the one
\* the service computed for the i-th text, whatever the order of the items in
\* each batch response; the empty input gives the empty output without a call.
C15_EmbeddingsAligned ==
  call.op = "embed_chunks" =>
    /\ result.kind = "embeddings" =>
         /\ Len(result.embeddings) = Len(CallTexts)
         /\ \A i \in 1..Len(CallTexts) :
              result.embeddings[i] = Embedding(CallTexts[i])
         /\ result.calls = NumBatches(CallTexts)
    /\ (result # NoResult /\ ~AnyBatchFails) =>
         result.kind \in {"embeddings", "chunks_with_embeddings", "chunk_data"}
    /\ (result # NoResult /\ CallTexts = <<>>) =>
         result \in {[kind |-> "embeddings", embeddings |-> <<>>, calls |-> 0],
                     [kind |-> "chunks_with_embeddings", pairs |-> <<>>],
                     [kind |-> "chunk_data", chunk_data |-> <<>>]}

C15_Witness ==
  /\ call.op = "embed_chunks"
  /\ result.kind = "embeddings"
  /\ Len(CallTexts) > MAX_BATCH_SIZE
  /\ \A k \in 1..NumBatches(CallTexts) :
       call.responses[k].data[1].index # 0 \/ Len(call.responses[k].data) = 1
  /\ \E i, j \in 1..Len(CallTexts) : CallTexts[i] # CallTexts[j]

\* C16: when the call for some batch fails, embed_texts raises EmbeddingError
\* and returns no vectors; when it returns, it returns a vector for every
\* text; and the chunk data ingestion builds from it has every chunk.
C16_EmbeddingAllOrNothing ==
  call.op = "embed_chunks" =>
    /\ (result # NoResult /\ AnyBatchFails) =>
         /\ result.kind = "EmbeddingError"
         /\ DOMAIN result = {"kind", "calls"}
    /\ result.kind = "embeddings" =>
         Len(result.embeddings) = Len(call.chunks)
    /\ result.kind = "chunks_with_embeddings" =>
         Len(result.pairs) = Len(call.chunks)
    /\ result.kind = "chunk_data" =>
         /\ ~AnyBatchFails
         /\ [i \in 1..Len(result.chunk_data) |-> result.chunk_data[i].chunk_index]
              = [i \in 1..Len(call.chunks) |-> i - 1]
    /\ result.kind # "ValueError"

C16_Witness ==
  /\ call.op = "embed_chunks"
  /\ result.kind = "EmbeddingError"
  /\ result.calls = 2
  /\ call.responses[1].kind = "data"

\* ---------------------------------------------------- claims: retrieval
EffectiveTopK ==
  IF call.top_k = 0 THEN RAGConfig.top_k ELSE call.top_k

\* C17: a question for which no chunk has a similarity of at least the
\* configured min_score gets the fixed no-information answer with an empty
\* source list and no call of the generation service, in the context-expanded
\* mode as well as in the plain mode.
C17_NoInformationBelowMinScore ==
  (/\ call.op = "query"
   /\ result.kind = "response"
   /\ \A id \in ChunkIds : call.similarity[id] < RAGConfig.min_score)
  => /\ result.answer = NoInformationAnswer
     /\ result.sources = <<>>
     /\ result.generation = 0

\* C18: the Source list of a query result has no two entries with the same
\* (document_id, page_number); the entry of a key is built from the first chunk
\* with that key in retrieval order (its score, its content cut to
\* ExcerptLength); every key of a chunk has its entry; the list is ordered by
\* score descending.
C18_SourcesDeduplicated ==
  (call.op = "query" /\ result.kind = "response")
  => LET retrieved == result.chunks
         sources == result.sources
         KeyOf(x) == <<x.document_id, x.page_number>>
         First(key) ==
           CHOOSE f \in 1..Len(retrieved) :
             /\ KeyOf(retrieved[f]) = key
             /\ \A g \in 1..(f - 1) : KeyOf(retrieved[g]) # key
     IN  /\ \A i, j \in 1..Len(sources) : i < j =>
              /\ KeyOf(sources[i]) # KeyOf(sources[j])
              /\ sources[i].score >= sources[j].score
         /\ \A f \in 1..Len(retrieved) :
              \E i \in 1..Len(sources) : KeyOf(sources[i]) = KeyOf(retrieved[f])
         /\ \A i \in 1..Len(sources) :
              /\ \E f \in 1..Len(retrieved) : KeyOf(retrieved[f]) = KeyOf(sources[i])
              /\ LET chunk == retrieved[First(KeyOf(sources[i]))]
                 IN  /\ sources[i].score = chunk.score
                     /\ sources[i].filename = chunk.filename
                     /\ Len(sources[i].chunk_content) <= ExcerptLength
                     /\ Len(sources[i].chunk_content) <= Len(chunk.content)
                     /\ \/ Len(sources[i].chunk_content) = ExcerptLength
                        \/ Len(sources[i].chunk_content) = Len(chunk.content)
                     /\ \A k \in 1..Len(sources[i].chunk_content) :
                          sources[i].chunk_content[k] = chunk.content[k]

\* A response whose retrieval holds two chunks of one page, the first with the
\* lower score and a content longer than an excerpt, and a chunk of another
\* page scoring above both.
C18_Witness ==
  /\ call.op = "query"
  /\ result.kind = "response"
  /\ \E i, j, k \in 1..Len(result.chunks) :
       /\ i < j
       /\ result.chunks[i].document_id = result.chunks[j].document_id
       /\ result.chunks[i].page_number = result.chunks[j].page_number
       /\ result.chunks[i].score < result.chunks[j].score
       /\ Len(result.chunks[i].content) > ExcerptLength
       /\ j < k
       /\ result.chunks[k].score > result.chunks[j].score
  /\ Len(result.sources) < Len(result.chunks)

\* C19: retrieve returns exactly the similarity-search results whose score is
\* at least min_score, in their order, which is descending similarity, each
\* with the filename of its document: none below min_score is returned and
\* none at or above it is dropped.
C19_RetrieveFiltersByMinScore ==
  (call.op = "query" /\ result.kind = "retrieved")
  => LET results == result.results
         kept == {i \in 1..Len(results) :
                    call.similarity[results[i].id] >= result.min_score}
         Nth(j) ==
           CHOOSE i \in kept : Cardinality({h \in kept : h < i}) = j - 1
     IN  /\ Len(result.chunks) = Cardinality(kept)
         /\ \A j \in 1..Len(result.chunks) :
              /\ result.chunks[j].chunk_id = results[Nth(j)].id
              /\ result.chunks[j].document_id = results[Nth(j)].document_id
              /\ result.chunks[j].content = results[Nth(j)].content
              /\ result.chunks[j].page_number = results[Nth(j)].page_number
              /\ result.chunks[j].score = call.similarity[results[Nth(j)].id]
              /\ result.chunks[j].score >= result.min_score
              /\ \E d \in CorpusDocuments :
                   /\ d.id = result.chunks[j].document_id
                   /\ d.filename = result.chunks[j].filename
         /\ \A j, k \in 1..Len(result.chunks) :
              j < k => result.chunks[j].score >= result.chunks[k].score

\* retrieve with a positive min_score that drops a result and keeps two, one
\* of them of exactly min_score.
C19_Witness ==
  /\ call.op = "query"
  /\ result.kind = "retrieved"
  /\ result.min_score > 0
  /\ Len(result.chunks) = 2
  /\ Len(result.results) > 2
  /\ \E j \in 1..Len(result.chunks) : result.chunks[j].score = result.min_score
  /\ \E j \in 1..Len(result.chunks) : result.chunks[j].score > result.min_score

\* C20: whenever a document id list is supplied, whatever its value, every
\* chunk retrieval returns belongs to a document of the list and the project
\* filter is ignored (the search ranks all chunks of the listed documents); the
\* project filter applies only when no list is supplied.
C20_DocumentIdsTakePrecedence ==
  /\ (call.op = "query" /\ result.kind \in {"retrieved", "with_context", "response"}
        /\ call.document_ids.given)
     => \A i \in 1..Len(result.chunks) :
          result.chunks[i].document_id \in Range(call.document_ids.ids)
  /\ (call.op = "query" /\ result.kind = "retrieved" /\ call.document_ids.given)
     => \A c \in CorpusChunks :
          (/\ c.document_id \in Range(call.document_ids.ids)
           /\ \A i \in 1..Len(result.results) : result.results[i] # c)
          => /\ Len(result.results) = EffectiveTopK
             /\ \A i \in 1..Len(result.results) :
                  call.similarity[result.results[i].id] >= call.similarity[c.id]
  /\ (call.op = "query" /\ result.kind = "retrieved" /\ ~call.document_ids.given
        /\ call.project_id # None)
     => \A i \in 1..Len(result.results) :
          DocumentById(result.results[i].document_id).project_id = call.project_id

\* --------------------------------------------------- claims: classifier
KnownTypes == DocumentType \ {UNKNOWN}

\* C21 as stated: classify returns a known type only when the response is
\* exactly the label of the type; every other text gives unknown without
\* raising; a blank input gives unknown without a call of the generation
\* service; only an error of the service raises ClassificationError.
C21_ClassifyExactLabel ==
  (call.op = "classify" /\ result # NoResult)
  => LET blank == \A i \in 1..Len(call.text) : call.text[i] \in Whitespace
         response == call.response
     IN  /\ blank => /\ result.kind = "document_type"
                     /\ result.document_type = UNKNOWN
                     /\ result.generation = 0
         /\ (~blank /\ response.kind = "text")
              => /\ result.kind = "document_type"
                 /\ result.generation = 1
                 /\ \A t \in KnownTypes :
                      result.document_type = t <=> response.content = <<t>>
                 /\ result.document_type \in DocumentType
         /\ result.kind = "ClassificationError"
              <=> (~blank /\ response.kind = "error")

\* C21 as the code has it: classify returns a known type exactly when the
\* response, without the white space around it and in lower case, is the
\* label of the type; every other text gives unknown without raising; a blank
\* input gives unknown without a call of the generation service;
\* ClassificationError is raised exactly when the service raises or answers
\* without a text.
C21_ClassifyNormalizedLabel ==
  (call.op = "classify" /\ result # NoResult)
  => LET blank == \A i \in 1..Len(call.text) : call.text[i] \in Whitespace
         response == call.response
         IsLabel(content, t) ==
           \E i \in 1..Len(content) :
             /\ content[i] = t \/ (t = MIETVERTRAG /\ content[i] = "Mietvertrag")
             /\ \A j \in 1..Len(content) : j # i => content[j] \in Whitespace
     IN  /\ blank => /\ result.kind = "document_type"
                     /\ result.document_type = UNKNOWN
                     /\ result.generation = 0
         /\ (~blank /\ response.kind = "text")
              => /\ result.kind = "document_type"
                 /\ result.generation = 1
                 /\ \A t \in KnownTypes :
                      result.document_type = t <=> IsLabel(response.content, t)
                 /\ result.document_type \in DocumentType
         /\ result.kind = "ClassificationError"
              <=> (~blank /\ response.kind \in {"error", "none"})

\* classify of a text that is not blank, answered with a capitalised label
\* between white space: the type of the label is returned.
C21_Witness ==
  /\ call.op = "classify"
  /\ call.text = <<" ", "vertrag">>
  /\ call.response = TextContent(<<" ", "Mietvertrag", " ">>)
  /\ result # NoResult
  /\ result.kind = "document_type"
  /\ result.document_type = MIETVERTRAG

\* --------------------------------------------------- claims: confidence
Populated(data) ==
  {i \in 1..Len(data) : data[i] # None /\ data[i] # EmptyList}

\* C22: the confidence is the number of fields that are neither null nor an
\* empty list divided by the number of fields of the schema, it lies in
\* [0, 1], and a record with every field populated scores strictly higher
\* than a record of the same schema with a proper subset populated.
C22_ConfidenceIsCompleteness ==
  (call.op = "calculate_confidence" /\ result # NoResult)
  => LET c == result.confidence
         o == result.other
     IN  /\ c.den > 0
         /\ c.num * Len(call.data) = Cardinality(Populated(call.data)) * c.den
         /\ 0 <= c.num /\ c.num <= c.den
         /\ (/\ Populated(call.data) = 1..Len(call.data)
             /\ Populated(call.other) # 1..Len(call.other))
            => c.num * o.den > o.num * c.den

\* A fully populated record beside one of the same schema in which one field
\* is null, one an empty list and one populated.
C22_Witness ==
  /\ call.op = "calculate_confidence"
  /\ result # NoResult
  /\ Len(call.data) = 3
  /\ Populated(call.data) = 1..3
  /\ Cardinality(Populated(call.other)) = 1
  /\ \E i \in 1..3 : call.other[i] = EmptyList
  /\ \E i \in 1..3 : call.other[i] = None

\* ------------------------------------------------------ claims: no retry
\* One ingestion run calls the parser once, the classifier at most once,
\* embed_chunks once, create_many at most once and the extractor at most once,
\* in this order.
C23_IngestionCallCounts ==
  \A s \in Sessions :
    loc[s].op = "upload" =>
      LET c == loc[s].calls IN
      /\ c.parser <= 1 /\ c.classifier <= 1 /\ c.embedder <= 1
      /\ c.create_many <= 1 /\ c.extractor <= 1
      /\ pc[s] \notin {"processing", "parse"} => c.parser = 1
      /\ c.classifier = 1 \/ c.embedder = 1 => c.parser = 1
      /\ c.create_many = 1 => c.embedder = 1
      /\ c.extractor = 1 => c.create_many = 1

\* embed_texts calls the embedding service once per batch, and not again
\* after a batch has failed.
C23_EmbeddingCallCounts ==
  (call.op = "embed_chunks" /\ result # NoResult)
  => LET n == Len(call.chunks)
         batches == (n + MAX_BATCH_SIZE - 1) \div MAX_BATCH_SIZE
         failed == {k \in 1..batches : call.responses[k].kind = "error"}
     IN  /\ result.kind = "embeddings" =>
              failed = {} /\ result.calls = batches
         /\ result.kind = "EmbeddingError" =>
              /\ result.calls \in failed
              /\ \A k \in failed : result.calls <= k

\* One query calls the generation service at most once.
C23_QueryCallCounts ==
  (call.op = "query" /\ result.kind = "response")
  => /\ result.generation <= 1
     /\ result.generation = 1 <=> result.chunks # <<>>

\* A step of a run in which a call has failed, or whose extractor has been
\* called, calls no collaborator.
C23_NoCallAfterFailure ==
  \A s \in Sessions :
    (/\ loc[s].op = "upload"
     /\ loc'[s].op = "upload"
     /\ loc[s].raised # "none" \/ loc[s].calls.extractor = 1)
    => loc'[s].calls = loc[s].calls

\* C23: no operation retries: one ingestion run calls the parser once, the
\* classifier at most once, the embedding service once per batch, chunk
\* persistence at most once and the extractor at most once, and calls none of
\* them after a call has failed; one query calls the generation service at
\* most once.
C23_NoRetry ==
  /\ [](C23_IngestionCallCounts /\ C23_EmbeddingCallCounts /\ C23_QueryCallCounts)
  /\ [][C23_NoCallAfterFailure]_vars

\* An ingestion run whose embedding failed after the parser and the
\* classifier were called, with the failure handled.
C23_Witness ==
  \E s \in Sessions :
    /\ loc[s].op = "upload"
    /\ pc[s] = "raised"
    /\ loc[s].calls.parser = 1
    /\ loc[s].calls.classifier = 1
    /\ loc[s].calls.embedder = 1
    /\ loc[s].calls.create_many = 0
    /\ loc[s].calls.extractor = 0

\* ------------------------------------------------ claims: concurrent runs
\* The run of session s has ended (before its session is closed).
RunEnded(s) ==
  loc[s].op = "upload" /\ pc[s] \in {"returned", "raised"}

\* The status and the chunks a run ends with are decided by what the run
\* itself met: completed without a failure and failed with one; the chunks of
\* its pages when create_many went through, none otherwise.
C24_OutcomeIsOwn ==
  \A s \in Sessions :
    RunEnded(s) =>
      LET d == loc[s].document_id
          stored == /\ loc[s].calls.create_many = 1
                    /\ ~(pc[s] = "raised" /\ loc[s].calls.extractor = 0)
      IN  /\ documents[d].exists
          /\ documents[d].owner = s
          /\ documents[d].status = (IF pc[s] = "returned" THEN COMPLETED ELSE FAILED)
          /\ statusLog[d] = <<PENDING, PROCESSING, documents[d].status>>
          /\ chunks[d] = (IF stored THEN ChunkIndexes(loc[s].pages) ELSE {})
          /\ \A t \in Sessions : (t # s /\ loc[t].op = "upload") => loc[t].document_id # d

\* No run waits for the other or is refused because of it.
C24_NeverHindered ==
  \A s \in Sessions :
    (loc[s].op = "upload" /\ pc[s] = "extract") =>
      /\ ~InsertBlocked(s, extracted, loc[s].document_id)
      /\ ~UniqueViolation(s, extracted, loc[s].document_id)

\* A step of a run leaves the rows of every other document as they are.
C24_Frame ==
  \A s \in Sessions :
    (pc'[s] # pc[s] \/ loc'[s] # loc[s]) =>
      LET own == IF loc[s].op = "upload" THEN loc[s].document_id
                 ELSE loc'[s].document_id
      IN  \A d \in DOMAIN documents :
            d # own =>
              /\ documents'[d] = documents[d]
              /\ chunks'[d] = chunks[d]
              /\ statusLog'[d] = statusLog[d]
              /\ RowsOf(extracted', d) = RowsOf(extracted, d)

\* C24: concurrent ingestion runs are independent: each run reads and writes
\* only the Document, the chunks and the ExtractedRecord of the document it
\* created, so under every interleaving of two runs each run ends with the
\* status and the chunks that its own course decides, as when it runs alone.
C24_RunsIndependent ==
  /\ [](C24_OutcomeIsOwn /\ C24_NeverHindered)
  /\ [][C24_Frame]_vars

\* Two runs that have ended side by side, one completed with its chunks
\* stored, the other failed.
C24_Witness ==
  \E s, t \in Sessions :
    /\ s # t
    /\ RunEnded(s) /\ RunEnded(t)
    /\ pc[s] = "returned" /\ chunks[loc[s].document_id] # {}
    /\ pc[t] = "raised" /\ chunks[loc[t].document_id] = {}

\* -------------------------------------------------- claims: chunker pages
PageNumbered(n) ==
  CHOOSE page \in Range(call.document) : page.page_number = n

\* C25: chunks never span pages: every chunk carries the number of a page of
\* the document and all its tokens (but for the separators the chunker puts
\* between paragraphs) are tokens of that page; page numbers do not decrease
\* along chunk_index; a document whose pages each hold text that is not blank
\* and fits within chunk_size gives one chunk per page, the i-th with index
\* i - 1 and the number of the i-th page.
C25_ChunksWithinPages ==
  (call.op = "chunk_document" /\ result.kind = "chunks")
  => LET document == call.document
         returned == result.chunks
     IN  /\ \A i \in 1..Len(returned) :
              /\ \E page \in Range(document) : page.page_number = returned[i].page_number
              /\ returned[i].content # <<>>
              /\ \A j \in 1..Len(returned[i].content) :
                   \/ returned[i].content[j] = ParagraphSeparator
                   \/ \E k \in 1..Len(PageNumbered(returned[i].page_number).text) :
                        PageNumbered(returned[i].page_number).text[k]
                          = returned[i].content[j]
         /\ \A i, j \in 1..Len(returned) :
              i < j => returned[i].page_number <= returned[j].page_number
         /\ (\A n \in 1..Len(document) :
               /\ \E k \in 1..Len(document[n].text) : ~IsSpace(document[n].text[k])
               /\ Len(document[n].text) <= chunk_size)
            => /\ Len(returned) = Len(document)
               /\ \A n \in 1..Len(document) :
                    /\ returned[n].chunk_index = n - 1
                    /\ returned[n].page_number = document[n].page_number

\* A document of two pages that both fit, with two paragraphs on the first,
\* chunked into two chunks.
C25_Witness ==
  /\ call.op = "chunk_document"
  /\ result.kind = "chunks"
  /\ Len(call.document) = 2
  /\ Len(call.document[1].text) = chunk_size
  /\ \E k \in 1..Len(call.document[1].text) : IsSpace(call.document[1].text[k])
  /\ Len(call.document[2].text) <= chunk_size
  /\ Len(result.chunks) = 2
  /\ result.chunks[2].page_number = 2

\* ----------------------------------------------- claims: context chunks
\* The chunk of the store lies within context_chunks positions of the primary
\* hit in the chunk_index order of its document.
InWindow(primary, chunk_id) ==
  LET hit == CHOOSE c \in CorpusChunks : c.id = primary.chunk_id
      chunk == CHOOSE c \in CorpusChunks : c.id = chunk_id
  IN  /\ chunk.document_id = hit.document_id
      /\ chunk.chunk_index - hit.chunk_index <= call.context_chunks
      /\ hit.chunk_index - chunk.chunk_index <= call.context_chunks

\* C26: in the result of retrieve_with_context every chunk id occurs once;
\* every primary hit is there with its own score, also when it lies in the
\* window of another primary hit; a chunk that is there as a neighbour only
\* carries 0.9 times the score and the filename of the primary hit that added
\* it (the first in retrieval order whose window holds it); the neighbours are
\* the chunks within context_chunks positions of a primary hit in the
\* chunk_index order of its document.
C26_ContextExpansion ==
  (call.op = "query" /\ result.kind = "with_context")
  => LET primary == result.primary_chunks
         out == result.chunks
         IsPrimary(id) == \E k \in 1..Len(primary) : primary[k].chunk_id = id
     IN  /\ \A i, j \in 1..Len(out) : i < j => out[i].chunk_id # out[j].chunk_id
         /\ \A k \in 1..Len(primary) :
              \E i \in 1..Len(out) : out[i] = primary[k]
         /\ \A i \in 1..Len(out) :
              ~IsPrimary(out[i].chunk_id) =>
                /\ call.context_chunks > 0
                /\ \E k \in 1..Len(primary) :
                     /\ InWindow(primary[k], out[i].chunk_id)
                     /\ \A h \in 1..(k - 1) : ~InWindow(primary[h], out[i].chunk_id)
                     /\ out[i].score * 10 = primary[k].score * 9
                     /\ out[i].filename = primary[k].filename
                /\ \E c \in CorpusChunks :
                     /\ c.id = out[i].chunk_id
                     /\ c.document_id = out[i].document_id
                     /\ c.content = out[i].content
                     /\ c.page_number = out[i].page_number
         /\ \A c \in CorpusChunks :
              (\E k \in 1..Len(primary) : InWindow(primary[k], c.id))
              => \E i \in 1..Len(out) : out[i].chunk_id = c.id

\* Two primary hits next to each other in one document, the better one first,
\* so that the second was a neighbour before it was set as a hit, with a
\* further chunk that is a neighbour only.
C26_Witness ==
  /\ call.op = "query"
  /\ result.kind = "with_context"
  /\ call.context_chunks = 1
  /\ Len(result.primary_chunks) = 2
  /\ InWindow(result.primary_chunks[1], result.primary_chunks[2].chunk_id)
  /\ result.primary_chunks[1].score > result.primary_chunks[2].score
  /\ Len(result.chunks) = 3

\* ------------------------------------------------- claims: forced split
\* C27: the forced split of a sentence longer than chunk_size gives windows
\* of exactly chunk_size tokens, the last possibly shorter; the start of each
\* window lies chunk_size - chunk_overlap tokens behind the start of the one
\* before; every token of the sentence lies in a window.
C27_ForcedWindows ==
  (call.op = "force_split_by_tokens" /\ result.kind = "windows")
  => LET windows == result.windows
         n == Len(call.tokens)
     IN  /\ windows # <<>>
         /\ windows[1].start = 0
         /\ \A w \in 1..Len(windows) :
              /\ w < Len(windows) => Len(windows[w].tokens) = call.chunk_size
              /\ Len(windows[w].tokens) >= 1
              /\ Len(windows[w].tokens) <= call.chunk_size
              /\ \A k \in 1..Len(windows[w].tokens) :
                   windows[w].tokens[k] = call.tokens[windows[w].start + k]
              /\ w > 1 => windows[w].start
                            = windows[w - 1].start + call.chunk_size - call.chunk_overlap
         /\ \A t \in 1..n :
              \E w \in 1..Len(windows) : \E k \in 1..Len(windows[w].tokens) :
                windows[w].tokens[k] = call.tokens[t]

\* A sentence split into three windows or more with an overlap, the last
\* window shorter than chunk_size.
C27_Witness ==
  /\ call.op = "force_split_by_tokens"
  /\ result.kind = "windows"
  /\ call.chunk_overlap >= 1
  /\ Len(result.windows) >= 3
  /\ Len(result.windows[Len(result.windows)].tokens) < call.chunk_size

\* Every iteration of the window loop moves the start forward.
C28_StartAdvances ==
  (/\ call.op = "force_split_by_tokens"
   /\ result.kind = "loop"
   /\ result'.kind = "loop")
  => result'.i > result.i

\* The loop has come to its end by the time it has made as many windows as
\* the sentence has tokens.
C28_LoopEnds ==
  (call.op = "force_split_by_tokens" /\ result.kind = "loop")
  => (Len(result.windows) >= Len(call.tokens) => result.i >= Len(call.tokens))

\* C28: chunk_document terminates for every document and every configuration
\* the constructor of the Chunker accepts, chunk_overlap >= chunk_size
\* included: every iteration of the forced window loop moves its start
\* forward, so the loop ends.
C28_ForceSplitTerminates ==
  /\ []C28_LoopEnds
  /\ [][C28_StartAdvances]_vars

\* ------------------------------------------------------ claims: projects
\* A step that deletes project p.
DeletesProject(p) ==
  /\ result.kind = "store"
  /\ p \in result.projects
  /\ call'.op = "delete_project"
  /\ call'.id = p
  /\ call'.status_code = HTTP_204_NO_CONTENT

C30_DocumentsKept ==
  \A p \in ProjectIds :
    DeletesProject(p)
    => \A d \in project_documents(result, p) :
         /\ d \in DOMAIN result'.documents
         /\ result'.documents[d].project_id = NoProject
         /\ {c \in result'.chunks : c.document_id = d}
              = {c \in result.chunks : c.document_id = d}
         /\ (d \in result'.extracted_data) = (d \in result.extracted_data)

\* C30: deleting a project keeps its documents: after delete_project every
\* document that belonged to the project still exists, with its chunks and
\* its extracted data, and its project reference is empty.
C30_DeleteProjectKeepsDocuments ==
  [][C30_DocumentsKept]_vars

\* ------------------------------------------------ claims: failed documents
\* No document with status failed has chunks in the table.
C29_FailedHasNoChunks ==
  \A d \in DOMAIN documents :
    (documents[d].exists /\ documents[d].status = FAILED) => chunks[d] = {}

\* A run that has stored its chunks goes on to the extraction step and to
\* completed only.
C29_StoreThenExtractAndComplete ==
  \A s \in Sessions :
    (/\ loc[s].op = "upload"
     /\ pc[s] \in {"extract", "complete"}
     /\ pc'[s] # pc[s])
    => /\ pc'[s] \in {"complete", "returned"}
       /\ documents'[loc[s].document_id].status # FAILED

\* C29: in every reachable state a document whose status is failed has no
\* persisted chunks; all chunks of a document are persisted in one step that
\* is followed only by the extraction step and the transition to completed.
C29_FailedDocumentHasNoChunks ==
  /\ []C29_FailedHasNoChunks
  /\ [][C29_StoreThenExtractAndComplete]_vars

====
